---- MODULE Spec2Model ----
(***************************************************************************)
(* AstroDB storage engine (src/database.py) and the part of the predicate  *)
(* evaluator (src/query_engine.py) that the store's queries use.           *)
(*                                                                         *)
(* Python objects are modelled by value plus an identity tag: every stored *)
(* document carries the hidden key "ref", the identity of the dict object. *)
(* Two entries with the same ref are the same Python object, so a write    *)
(* through one of them (doc.update, document[k] = v) is applied to all.    *)
(* Absent dictionary keys are ABSENT, Python's None is NULL. The key "a"   *)
(* of a document holds a nested dict {"b": x}, written as its x.           *)
(***************************************************************************)
EXTENDS Integers, Sequences, FiniteSets, TLC

VARIABLES
    collections,        \* self._db["collections"]: name -> list of documents
    index_definitions,  \* self._db["_index_definitions"]: name -> list of fields
    indexes,            \* self._indexes: name -> field -> value -> document
    file,               \* DATABASE_FILE on disk
    uuid_next,          \* the next value uuid.uuid4() hands out
    issued,             \* history: per collection, the _ids insert has stamped
    last,               \* history: the call of insert_one or update_one that ran last,
                        \* with the payload it was given and what it returned;
                        \* NoCall once another operation has run
    _lock,              \* self._lock: TRUE while a thread is inside "with self._lock"
    pc,                 \* per thread: the call it is in and where it is in that call
    _users_db,          \* auth_engine._users_db: username -> hashed password
    _failed_login_attempts,  \* auth_engine: username -> count and time of last failure
    now,                \* datetime.now(timezone.utc), in minutes
    log                 \* history: the calls made to the store, where a
                        \* specification keeps them

vars == <<collections, index_definitions, indexes, file, uuid_next, issued, last, _lock, pc,
          _users_db, _failed_login_attempts, now, log>>

auth == <<_users_db, _failed_login_attempts, now>>

threads == <<_lock, pc>>

store == <<collections, index_definitions, indexes>>

-----------------------------------------------------------------------------
(* Bounds and value domains *)

MaxIds == 2

ABSENT == -1
NULL == 0

\* a value that is a list: it equals none of the values queries ask for, and
\* it cannot be hashed, so it cannot be the key of an index map. LIST is a
\* list of numbers, DICTS a list of one mapping, MIXED a list of a mapping
\* and a number
LIST == 9
DICTS == 8
MIXED == 7
Lists == {LIST, DICTS, MIXED}

CollNames == {"c1"}
Owners == {1, 2}
UserFields == {"f"}
Fields == {"_id", "owner_id", "a"} \cup UserFields
FVals == {1, 2}
Ids == 1..MaxIds

Payload(id, owner, fv) ==
    [k \in Fields |->
        CASE k = "_id" -> id
          [] k = "owner_id" -> owner
          [] k = "f" -> fv
          [] OTHER -> ABSENT]

\* the payload with "a": {"b": x}
Nested(payload, x) == [payload EXCEPT !["a"] = x]

\* A caller's payload for insert: the user field, and possibly system fields
\* the caller put there itself.
InsertPayloads == {Payload(ABSENT, ABSENT, fv) : fv \in FVals \cup {ABSENT}} \cup {Payload(1, 2, 1)}

InsertManyPayloads ==
    { <<Payload(ABSENT, ABSENT, 1), Payload(ABSENT, ABSENT, fv)>> : fv \in FVals }

\* update payloads: one that also names the system fields, one that sets f to None
UpdatePayloads == {Payload(1, 2, 2), Payload(ABSENT, ABSENT, NULL)}

-----------------------------------------------------------------------------
(* Dictionaries *)

\* key in dict
Has(doc, k) == k \in DOMAIN doc /\ doc[k] # ABSENT

\* dict.get(key): None when the key is missing
Get(doc, k) == IF Has(doc, k) THEN doc[k] ELSE NULL

\* d[k] = v on a dict-valued map m (a function with a finite domain)
Put(m, k, v) == [x \in (DOMAIN m) \cup {k} |-> IF x = k THEN v ELSE m[x]]

\* del m[k]
Del(m, k) == [x \in (DOMAIN m) \ {k} |-> m[x]]

EmptyMap == [x \in {} |-> 0]

-----------------------------------------------------------------------------
(* Predicate evaluator (src/query_engine.py), on flat documents.            *)
(* A query is the list of its clauses in dict order; a clause is            *)
(* [k |-> field, op |-> "eq", v |-> value] for a bare value and             *)
(* [k |-> field, op |-> "$gt", v |-> value] for the operator object         *)
(* {"$gt": value}; the value of "$exists" is a boolean. The keys "$and" and  *)
(* "$or" hold a list of queries: [k |-> "$and", op |-> "$and", v |-> list].  *)

Clause(k, op, v) == [k |-> k, op |-> op, v |-> v]

\* isinstance(query_value, dict)
IsOperatorObject(clause) == clause.op # "eq"

\* key_path.split("."), then one step down per key; None when a step fails
_get_nested_value(doc, key_path) ==
    IF key_path = "a.b"
    THEN (IF Has(doc, "a") THEN doc["a"] ELSE NULL)
    ELSE Get(doc, key_path)

\* isinstance(doc_value, (int, float))
IsNumber(v) == v \notin {NULL} \cup Lists

_match_field(doc_value, clause) ==
    CASE clause.op = "$gt" -> IsNumber(doc_value) /\ doc_value > clause.v
      [] clause.op = "$ne" -> doc_value # clause.v
      [] clause.op = "eq" -> doc_value = clause.v
      [] clause.op = "$exists" -> IF clause.v THEN doc_value # NULL ELSE doc_value = NULL
      [] OTHER -> FALSE

\* "$and" in query
HasKey(query, k) == \E i \in 1..Len(query) : query[i].k = k

\* query["$and"]
Value(query, k) == query[CHOOSE i \in 1..Len(query) : query[i].k = k].v

\* a loop over the keys that takes a key the document lacks as None
FieldsMatch_MissingAsNone(doc, query) ==
    \A i \in 1..Len(query) :
        _match_field(_get_nested_value(doc, query[i].k), query[i])

\* for key, value in query.items(): the loop over the field clauses
FieldsMatch(doc, query) ==
    \A i \in 1..Len(query) :
        LET doc_value == _get_nested_value(doc, query[i].k)
        IN /\ ~(doc_value = NULL /\ ~Has(doc, query[i].k))
           /\ _match_field(doc_value, query[i])

\* the keys of query other than "$and" and "$or"
FieldClauses(query) == SelectSeq(query, LAMBDA cl : cl.k \notin {"$and", "$or"})

\* an evaluation in which "$and" and "$or" stand next to the other keys of
\* their level, all of which have to hold
RECURSIVE matches_WithSiblings(_, _)
matches_WithSiblings(doc, query) ==
    /\ HasKey(query, "$and") =>
           \A j \in 1..Len(Value(query, "$and")) :
               matches_WithSiblings(doc, Value(query, "$and")[j])
    /\ HasKey(query, "$or") =>
           \E j \in 1..Len(Value(query, "$or")) :
               matches_WithSiblings(doc, Value(query, "$or")[j])
    /\ FieldsMatch(doc, FieldClauses(query))

RECURSIVE matches(_, _)
matches(doc, query) ==
    IF HasKey(query, "$and")
    THEN \A j \in 1..Len(Value(query, "$and")) : matches(doc, Value(query, "$and")[j])
    ELSE IF HasKey(query, "$or")
         THEN \E j \in 1..Len(Value(query, "$or")) : matches(doc, Value(query, "$or")[j])
         ELSE FieldsMatch(doc, query)

-----------------------------------------------------------------------------
(* Index maintenance *)

\* hash(v) raises TypeError
Unhashable(v) == v \in Lists

\* the loop body of _update_indexes_on_insert / create_index / _rebuild_indexes:
\* if field in doc: index_map[doc[field]] = doc. The assignment raises for a
\* value that cannot be hashed and leaves index_map as it was.
IndexPut(index_map, field, doc) ==
    IF Has(doc, field) /\ ~Unhashable(doc[field])
    THEN Put(index_map, doc[field], doc)
    ELSE index_map

\* for doc in documents: if field in doc: index_map[doc[field]] = doc, up to
\* the first document whose value cannot be hashed
RECURSIVE BuildIndex(_, _, _)
BuildIndex(index_map, field, docs) ==
    IF docs = <<>> THEN index_map
    ELSE IF Has(Head(docs), field) /\ Unhashable(Head(docs)[field])
         THEN index_map  \* TypeError: the loop ends here
    ELSE BuildIndex(IndexPut(index_map, field, Head(docs)), field, Tail(docs))

\* _update_indexes_on_insert(c, doc) ends in a TypeError
InsertRaises(idx, c, doc) ==
    /\ c \in DOMAIN idx
    /\ \E fld \in DOMAIN idx[c] : Has(doc, fld) /\ Unhashable(doc[fld])

\* The indexes the loop leaves, also when it raises at a user field: the index
\* on "_id", made by _rebuild_indexes before any other, has then been written.
_update_indexes_on_insert(idx, c, doc) ==
    IF c \in DOMAIN idx
    THEN [idx EXCEPT ![c] = [fld \in DOMAIN idx[c] |-> IndexPut(idx[c][fld], fld, doc)]]
    ELSE idx

\* one field's step of _update_indexes_on_update
IndexUpdate(index_map, field, old_document, new_document) ==
    LET old_value == Get(old_document, field)
        new_value == Get(new_document, field)
        removed == IF /\ old_value \in DOMAIN index_map
                      /\ index_map[old_value]["_id"] = old_document["_id"]
                   THEN Del(index_map, old_value)
                   ELSE index_map
    IN IF old_value # new_value
       THEN IF new_value # NULL THEN Put(removed, new_value, new_document) ELSE removed
       ELSE index_map

_update_indexes_on_update(idx, c, old_document, new_document) ==
    IF c \in DOMAIN idx
    THEN [idx EXCEPT ![c] =
            [fld \in DOMAIN idx[c] |-> IndexUpdate(idx[c][fld], fld, old_document, new_document)]]
    ELSE idx

\* a step that removes the entry of the document's value whatever it points at
IndexDelete_AnyEntry(index_map, field, document) ==
    IF Has(document, field) /\ document[field] \in DOMAIN index_map
    THEN Del(index_map, document[field])
    ELSE index_map

\* one field's step of _update_indexes_on_delete
IndexDelete(index_map, field, document) ==
    IF /\ Has(document, field)
       /\ document[field] \in DOMAIN index_map
       /\ index_map[document[field]]["_id"] = document["_id"]
    THEN Del(index_map, document[field])
    ELSE index_map

_update_indexes_on_delete(idx, c, document) ==
    IF c \in DOMAIN idx
    THEN [idx EXCEPT ![c] = [fld \in DOMAIN idx[c] |-> IndexDelete(idx[c][fld], fld, document)]]
    ELSE idx

\* A write through one reference to the dict object ref is seen through all of them.
WriteCollections(colls, ref, nd) ==
    [c \in DOMAIN colls |->
        [i \in 1..Len(colls[c]) |-> IF colls[c][i]["ref"] = ref THEN nd ELSE colls[c][i]]]

WriteIndexes(idx, ref, nd) ==
    [c \in DOMAIN idx |->
        [fld \in DOMAIN idx[c] |->
            [v \in DOMAIN idx[c][fld] |->
                IF idx[c][fld][v]["ref"] = ref THEN nd ELSE idx[c][fld][v]]]]

-----------------------------------------------------------------------------
(* Lookup. The operations are functions of the store (colls, idx) they run on. *)

\* doc.get("owner_id") == owner_id and matches(doc, query)
Selected(doc, query, owner_id) == Get(doc, "owner_id") = owner_id /\ matches(doc, query)

\* the sublist of docs that passes the owner filter and the query, in order
RECURSIVE Filter(_, _, _)
Filter(docs, query, owner_id) ==
    IF docs = <<>> THEN <<>>
    ELSE (IF Selected(Head(docs), query, owner_id) THEN <<Head(docs)>> ELSE <<>>)
         \o Filter(Tail(docs), query, owner_id)

NotUsable == [usable |-> FALSE, docs |-> <<>>]

\* the loop of _find_with_index from clause i on; NotUsable is the None of the code
RECURSIVE IndexLookup(_, _, _)
IndexLookup(field_maps, query, i) ==
    IF i > Len(query) THEN NotUsable
    ELSE IF IsOperatorObject(query[i]) THEN IndexLookup(field_maps, query, i + 1)
    ELSE IF query[i].k \in DOMAIN field_maps
         THEN IF query[i].v \in DOMAIN field_maps[query[i].k]
              THEN [usable |-> TRUE, docs |-> <<field_maps[query[i].k][query[i].v]>>]
              ELSE [usable |-> TRUE, docs |-> <<>>]
         ELSE IndexLookup(field_maps, query, i + 1)

_find_with_index(idx, c, query) ==
    IF c \notin DOMAIN idx THEN NotUsable ELSE IndexLookup(idx[c], query, 1)

\* a find that hands on the candidates of the index as they are
IndexedFind_Unfiltered(idx, c, query, owner_id) == _find_with_index(idx, c, query).docs

\* a find that never answers from the index
Find_ScanOnly(colls, idx, c, query, owner_id) ==
    IF c \notin DOMAIN colls THEN <<>> ELSE Filter(colls[c], query, owner_id)

\* a scan that applies the query filter and leaves the owner filter out
FullScan_AnyOwner(colls, c, query, owner_id) ==
    SelectSeq(colls[c], LAMBDA doc : matches(doc, query))

\* step 2 of find: the full scan
FullScan(colls, c, query, owner_id) == Filter(colls[c], query, owner_id)

\* step 1 of find: the candidates of the index, filtered by owner and query
IndexedFind(idx, c, query, owner_id) ==
    Filter(_find_with_index(idx, c, query).docs, query, owner_id)

\* what find returns
Find(colls, idx, c, query, owner_id) ==
    IF c \notin DOMAIN colls THEN <<>>
    ELSE IF _find_with_index(idx, c, query).usable
         THEN IndexedFind(idx, c, query, owner_id)
         ELSE FullScan(colls, c, query, owner_id)

\* what find_many returns: self.find(collection_name, query, owner_id)
FindMany(colls, idx, c, query, owner_id) == Find(colls, idx, c, query, owner_id)

\* what find_one returns: results[0] if results else None
FindOne(colls, idx, c, query, owner_id) ==
    LET results == FindMany(colls, idx, c, query, owner_id)
    IN IF results # <<>> THEN <<results[1]>> ELSE <<>>

-----------------------------------------------------------------------------
(* Persistence *)

EmptyFile(kind) == [kind |-> kind, collections |-> EmptyMap, index_definitions |-> EmptyMap]

\* ujson.dumps of a document: its keys and values, not the identity of the dict
Dump(doc) == [k \in Fields |-> doc[k]]

\* ujson.loads of a document: a new dict object. A load drops every object the
\* collections held before, and the loaded documents are named by their _id.
Load(d) == [k \in Fields \cup {"ref"} |-> IF k = "ref" THEN d["_id"] ELSE d[k]]

DumpCollections(colls) ==
    [c \in DOMAIN colls |-> [i \in 1..Len(colls[c]) |-> Dump(colls[c][i])]]

LoadCollections(colls) ==
    [c \in DOMAIN colls |-> [i \in 1..Len(colls[c]) |-> Load(colls[c][i])]]

\* for field in self._db["_index_definitions"][collection_name]: ...
RECURSIVE BuildDefined(_, _, _)
BuildDefined(field_maps, fields, docs) ==
    IF fields = <<>> THEN field_maps
    ELSE LET fld == Head(fields)
             start == IF fld \in DOMAIN field_maps THEN field_maps[fld] ELSE EmptyMap
         IN BuildDefined(Put(field_maps, fld, BuildIndex(start, fld, docs)), Tail(fields), docs)

_rebuild_indexes(colls, defs) ==
    [c \in DOMAIN colls |->
        LET id_index == [x \in {"_id"} |-> BuildIndex(EmptyMap, "_id", colls[c])]
        IN IF c \in DOMAIN defs THEN BuildDefined(id_index, defs[c], colls[c]) ELSE id_index]

\* a load whose try has no except: what decrypt or loads raises reaches the caller
LoadFromDisk_Uncaught(idx, f) ==
    IF f.kind = "ok"
    THEN [colls |-> LoadCollections(f.collections),
          defs |-> f.index_definitions,
          idx |-> _rebuild_indexes(LoadCollections(f.collections), f.index_definitions),
          raised |-> FALSE]
    ELSE [colls |-> EmptyMap, defs |-> EmptyMap, idx |-> idx, raised |-> f.kind = "corrupt"]

\* the store load_from_disk leaves, from the indexes it found and the file;
\* raised tells whether the call ends in an exception
LoadFromDisk(idx, f) ==
    IF f.kind = "ok"
    THEN [colls |-> LoadCollections(f.collections),
          defs |-> f.index_definitions,
          idx |-> _rebuild_indexes(LoadCollections(f.collections), f.index_definitions),
          raised |-> FALSE]
    ELSE \* the file is missing or empty, or decrypt / loads raised and was caught
         [colls |-> EmptyMap, defs |-> EmptyMap, idx |-> idx, raised |-> FALSE]

\* the steps of save_to_disk that can raise inside its try
SaveSteps == {"dumps", "encrypt", "open", "write"}

\* a save that leaves the index definitions out of what it writes
SaveFile_WithoutDefinitions(colls, defs) ==
    [kind |-> "ok", collections |-> DumpCollections(colls), index_definitions |-> EmptyMap]

\* what a save that succeeds writes: encrypt(ujson.dumps(self._db))
SaveFile(colls, defs) ==
    [kind |-> "ok", collections |-> DumpCollections(colls), index_definitions |-> defs]

\* The files save_to_disk can leave in place of f. dumps and encrypt run before
\* the file is opened; open(DATABASE_FILE, "wb") truncates it; a write that raises
\* leaves it empty or holding the part written, which does not decrypt.
SaveToDisk(f, colls, defs, failing) ==
    CASE failing = "none" -> {SaveFile(colls, defs)}
      [] failing \in {"dumps", "encrypt", "open"} -> {f}
      [] failing = "write" -> {EmptyFile("empty"), EmptyFile("corrupt")}

\* a save without its except: what a step raises reaches the caller
AfterSave_Uncaught(colls, defs, idx, failing) ==
    [colls |-> colls, defs |-> defs, idx |-> idx, raised |-> failing # "none"]

\* The store save_to_disk leaves in memory and whether the call ends in an
\* exception: the try block assigns neither self._db nor self._indexes, and
\* except Exception catches what dumps, encrypt, open or write raises.
AfterSave(colls, defs, idx, failing) ==
    [colls |-> colls, defs |-> defs, idx |-> idx, raised |-> FALSE]

-----------------------------------------------------------------------------
(* Insert *)

\* a stamping that keeps the owner_id the payload came with
Stamp_KeepsPayloadOwner(payload, ref, doc_id, owner_id) ==
    [k \in Fields \cup {"ref"} |->
        CASE k = "ref" -> ref
          [] k = "_id" -> doc_id
          [] k = "owner_id" -> IF Has(payload, "owner_id") THEN payload[k] ELSE owner_id
          [] OTHER -> payload[k]]

\* document["_id"] = doc_id; document["owner_id"] = owner_id, on the object ref
Stamp(payload, ref, doc_id, owner_id) ==
    [k \in Fields \cup {"ref"} |->
        CASE k = "ref" -> ref
          [] k = "_id" -> doc_id
          [] k = "owner_id" -> owner_id
          [] OTHER -> payload[k]]

\* the body of the insert loop: stamp, append, index; the document is handed
\* back only when the indexing did not raise. st = [colls, idx, next, out, raised]
InsertStep(st, c, payload, owner_id) ==
    LET doc == Stamp(payload, st.next, st.next, owner_id)
        raised == InsertRaises(st.idx, c, doc)
    IN [colls |-> [st.colls EXCEPT ![c] = Append(@, doc)],
        idx |-> _update_indexes_on_insert(st.idx, c, doc),
        next |-> st.next + 1,
        out |-> IF raised THEN st.out ELSE Append(st.out, doc),
        raised |-> raised]

\* if collection_name not in self._db["collections"]: ... = []
WithCollection(colls, c) == IF c \in DOMAIN colls THEN colls ELSE Put(colls, c, <<>>)

RECURSIVE InsertAll(_, _, _, _)
InsertAll(st, c, payloads, owner_id) ==
    IF payloads = <<>> \/ st.raised THEN st
    ELSE InsertAll(InsertStep(st, c, Head(payloads), owner_id), c, Tail(payloads), owner_id)

\* insert_many from the store (colls, idx), uuid4 handing out next, next + 1, ...
InsertMany(colls, idx, next, c, payloads, owner_id) ==
    InsertAll([colls |-> WithCollection(colls, c), idx |-> idx, next |-> next, out |-> <<>>,
               raised |-> FALSE],
              c, payloads, owner_id)

InsertOne(colls, idx, next, c, payload, owner_id) ==
    InsertStep([colls |-> WithCollection(colls, c), idx |-> idx, next |-> next, out |-> <<>>,
               raised |-> FALSE],
               c, payload, owner_id)

-----------------------------------------------------------------------------
(* Update *)

\* if "_id" in update_data: del ...; if "owner_id" in update_data: del ...
Strip(update_data) ==
    [k \in Fields |-> IF k \in {"_id", "owner_id"} THEN ABSENT ELSE update_data[k]]

\* doc.update(update_data)
DictUpdate(doc, update_data) ==
    [k \in DOMAIN doc |->
        IF k \in DOMAIN update_data /\ Has(update_data, k) THEN update_data[k] ELSE doc[k]]

\* the body of the update loops, on the document at position i of c
UpdateAt(colls, idx, c, i, update_data) ==
    LET doc == colls[c][i]
        new_doc == DictUpdate(doc, Strip(update_data))
    IN [colls |-> WriteCollections(colls, doc["ref"], new_doc),
        idx |-> _update_indexes_on_update(WriteIndexes(idx, doc["ref"], new_doc), c, doc, new_doc),
        doc |-> new_doc]

Matching(docs, query, owner_id) == {i \in 1..Len(docs) : Selected(docs[i], query, owner_id)}

Min(S) == CHOOSE x \in S : \A y \in S : x <= y
Max(S) == CHOOSE x \in S : \A y \in S : x >= y

\* an update loop that runs from the end of the list, as the delete loops do
UpdateOneTarget_Reversed(docs, query, owner_id) == Max(Matching(docs, query, owner_id))

\* for i, doc in enumerate(...): the first position that passes the test
UpdateOneTarget(docs, query, owner_id) == Min(Matching(docs, query, owner_id))

\* ret = <<>> is the None of the code
UpdateOne(colls, idx, c, query, update_data, owner_id) ==
    IF c \in DOMAIN colls /\ Matching(colls[c], query, owner_id) # {}
    THEN LET r == UpdateAt(colls, idx, c, UpdateOneTarget(colls[c], query, owner_id), update_data)
         IN [colls |-> r.colls, idx |-> r.idx, ret |-> <<r.doc>>]
    ELSE [colls |-> colls, idx |-> idx, ret |-> <<>>]

\* a loop that returns at its first match, as the loop of update_one does
RECURSIVE UpdateFrom_StopsAtFirst(_, _, _, _, _, _)
UpdateFrom_StopsAtFirst(st, c, query, update_data, owner_id, i) ==
    IF i > Len(st.colls[c]) THEN st
    ELSE IF Selected(st.colls[c][i], query, owner_id)
         THEN LET r == UpdateAt(st.colls, st.idx, c, i, update_data)
              IN [colls |-> r.colls, idx |-> r.idx, n |-> st.n + 1]
         ELSE UpdateFrom_StopsAtFirst(st, c, query, update_data, owner_id, i + 1)

\* st = [colls, idx, n]; the loop of update_many from position i on
RECURSIVE UpdateFrom(_, _, _, _, _, _)
UpdateFrom(st, c, query, update_data, owner_id, i) ==
    IF i > Len(st.colls[c]) THEN st
    ELSE IF Selected(st.colls[c][i], query, owner_id)
         THEN LET r == UpdateAt(st.colls, st.idx, c, i, update_data)
              IN UpdateFrom([colls |-> r.colls, idx |-> r.idx, n |-> st.n + 1],
                            c, query, update_data, owner_id, i + 1)
         ELSE UpdateFrom(st, c, query, update_data, owner_id, i + 1)

\* an update_many that makes the collection it is asked about, as insert does
UpdateMany_CreatesCollection(colls, idx, c, query, update_data, owner_id) ==
    IF c \in DOMAIN colls
    THEN UpdateFrom([colls |-> colls, idx |-> idx, n |-> 0], c, query, update_data, owner_id, 1)
    ELSE [colls |-> WithCollection(colls, c), idx |-> idx, n |-> 0]

UpdateMany(colls, idx, c, query, update_data, owner_id) ==
    IF c \in DOMAIN colls
    THEN UpdateFrom([colls |-> colls, idx |-> idx, n |-> 0], c, query, update_data, owner_id, 1)
    ELSE [colls |-> colls, idx |-> idx, n |-> 0]

-----------------------------------------------------------------------------
(* Delete *)

\* a removal that fills the hole with the last element of the list
RemoveAt_SwapLast(s, i) ==
    IF i = Len(s) THEN SubSeq(s, 1, i - 1)
    ELSE [SubSeq(s, 1, Len(s) - 1) EXCEPT ![i] = s[Len(s)]]

\* list.pop(i)
RemoveAt(s, i) == SubSeq(s, 1, i - 1) \o SubSeq(s, i + 1, Len(s))

\* for i in range(len(...) - 1, -1, -1): the first position, counting down, that passes
DeleteOneTarget(docs, query, owner_id) == Max(Matching(docs, query, owner_id))

DeleteAt(colls, idx, c, i) ==
    [colls |-> [colls EXCEPT ![c] = RemoveAt(@, i)],
     idx |-> _update_indexes_on_delete(idx, c, colls[c][i]),
     doc |-> colls[c][i]]

DeleteOne(colls, idx, c, query, owner_id) ==
    IF c \in DOMAIN colls /\ Matching(colls[c], query, owner_id) # {}
    THEN LET r == DeleteAt(colls, idx, c, DeleteOneTarget(colls[c], query, owner_id))
         IN [colls |-> r.colls, idx |-> r.idx, ret |-> <<r.doc>>]
    ELSE [colls |-> colls, idx |-> idx, ret |-> <<>>]

\* a loop that, after a removal, steps over the position next to it
RECURSIVE DeleteFrom_SkipsNeighbour(_, _, _, _, _)
DeleteFrom_SkipsNeighbour(st, c, query, owner_id, i) ==
    IF i < 1 THEN st
    ELSE IF Selected(st.colls[c][i], query, owner_id)
         THEN LET r == DeleteAt(st.colls, st.idx, c, i)
              IN DeleteFrom_SkipsNeighbour([colls |-> r.colls, idx |-> r.idx, n |-> st.n + 1],
                                           c, query, owner_id, i - 2)
         ELSE DeleteFrom_SkipsNeighbour(st, c, query, owner_id, i - 1)

\* st = [colls, idx, n]; the loop of delete_many from position i down
RECURSIVE DeleteFrom(_, _, _, _, _)
DeleteFrom(st, c, query, owner_id, i) ==
    IF i < 1 THEN st
    ELSE IF Selected(st.colls[c][i], query, owner_id)
         THEN LET r == DeleteAt(st.colls, st.idx, c, i)
              IN DeleteFrom([colls |-> r.colls, idx |-> r.idx, n |-> st.n + 1],
                            c, query, owner_id, i - 1)
         ELSE DeleteFrom(st, c, query, owner_id, i - 1)

DeleteMany(colls, idx, c, query, owner_id) ==
    IF c \in DOMAIN colls
    THEN DeleteFrom([colls |-> colls, idx |-> idx, n |-> 0], c, query, owner_id, Len(colls[c]))
    ELSE [colls |-> colls, idx |-> idx, n |-> 0]

-----------------------------------------------------------------------------
(* Index creation *)

\* a test that never finds the field among the definitions
Contains_Never(s, x) == FALSE

Contains(s, x) == \E i \in 1..Len(s) : s[i] = x

\* the loop of create_index over the documents ends in a TypeError
CreateIndexRaises(colls, c, field) ==
    /\ c \in DOMAIN colls
    /\ \E i \in 1..Len(colls[c]) : Has(colls[c][i], field) /\ Unhashable(colls[c][i][field])

CreateIndex(colls, defs, idx, c, field) ==
    LET field_maps == IF c \in DOMAIN idx THEN idx[c] ELSE EmptyMap
        docs == IF c \in DOMAIN colls THEN colls[c] ELSE <<>>
        fields == IF c \in DOMAIN defs THEN defs[c] ELSE <<>>
    IN [idx |-> Put(idx, c, Put(field_maps, field, BuildIndex(EmptyMap, field, docs))),
        defs |-> Put(defs, c, IF Contains(fields, field) THEN fields ELSE Append(fields, field))]

-----------------------------------------------------------------------------
(* Actions: one per public operation, run under self._lock from start to end *)

Result(op, c, arg, ret) == [op |-> op, c |-> c, arg |-> arg, ret |-> ret]

NoCall == Result("none", "", <<>>, <<>>)

\* an insert that writes the file after each document, as a store that
\* persists on every mutation would
insert_one_saving(c, payload, owner_id) ==
    /\ uuid_next <= MaxIds
    /\ LET r == InsertOne(collections, indexes, uuid_next, c, payload, owner_id)
       IN /\ collections' = r.colls
          /\ indexes' = r.idx
          /\ uuid_next' = r.next
          /\ issued' = [issued EXCEPT ![c] = @ \cup (uuid_next..(r.next - 1))]
          /\ last' = Result("insert_one", c, <<payload>>, r.out)
          /\ file' = SaveFile(r.colls, index_definitions)
    /\ UNCHANGED <<log, auth, threads, index_definitions>>

insert_one(c, payload, owner_id) ==
    /\ uuid_next <= MaxIds
    /\ LET r == InsertOne(collections, indexes, uuid_next, c, payload, owner_id)
       IN /\ collections' = r.colls
          /\ indexes' = r.idx
          /\ uuid_next' = r.next
          /\ issued' = [issued EXCEPT ![c] = @ \cup (uuid_next..(r.next - 1))]
          /\ last' = Result("insert_one", c, <<payload>>, r.out)
    /\ UNCHANGED <<log, auth, threads, index_definitions, file>>

insert_many(c, payloads, owner_id) ==
    /\ uuid_next + Len(payloads) - 1 <= MaxIds
    /\ LET r == InsertMany(collections, indexes, uuid_next, c, payloads, owner_id)
       IN /\ collections' = r.colls
          /\ indexes' = r.idx
          /\ uuid_next' = r.next
          /\ issued' = [issued EXCEPT ![c] = @ \cup (uuid_next..(r.next - 1))]
          /\ last' = NoCall
    /\ UNCHANGED <<log, auth, threads, index_definitions, file>>

update_one(c, query, update_data, owner_id) ==
    /\ LET r == UpdateOne(collections, indexes, c, query, update_data, owner_id)
       IN /\ collections' = r.colls
          /\ indexes' = r.idx
          /\ last' = Result("update_one", c, <<>>, r.ret)
    /\ UNCHANGED <<log, auth, threads, index_definitions, file, uuid_next, issued>>

update_many(c, query, update_data, owner_id) ==
    /\ LET r == UpdateMany(collections, indexes, c, query, update_data, owner_id)
       IN /\ collections' = r.colls
          /\ indexes' = r.idx
          /\ last' = NoCall
    /\ UNCHANGED <<log, auth, threads, index_definitions, file, uuid_next, issued>>

delete_one(c, query, owner_id) ==
    /\ LET r == DeleteOne(collections, indexes, c, query, owner_id)
       IN /\ collections' = r.colls
          /\ indexes' = r.idx
          /\ last' = NoCall
    /\ UNCHANGED <<log, auth, threads, index_definitions, file, uuid_next, issued>>

delete_many(c, query, owner_id) ==
    /\ LET r == DeleteMany(collections, indexes, c, query, owner_id)
       IN /\ collections' = r.colls
          /\ indexes' = r.idx
          /\ last' = NoCall
    /\ UNCHANGED <<log, auth, threads, index_definitions, file, uuid_next, issued>>

\* The find operations change nothing; what they return is Find, FindMany and
\* FindOne of the current store.
find(c, query, owner_id) ==
    /\ UNCHANGED vars

find_many(c, query, owner_id) ==
    /\ UNCHANGED vars

find_one(c, query, owner_id) ==
    /\ UNCHANGED vars

create_index(c, field) ==
    /\ LET r == CreateIndex(collections, index_definitions, indexes, c, field)
       IN /\ indexes' = r.idx
          /\ index_definitions' = r.defs
    /\ last' = NoCall
    /\ UNCHANGED <<log, auth, threads, collections, file, uuid_next, issued>>

load_from_disk ==
    /\ LET r == LoadFromDisk(indexes, file)
       IN /\ collections' = r.colls
          /\ index_definitions' = r.defs
          /\ indexes' = r.idx
    /\ last' = NoCall
    /\ UNCHANGED <<log, auth, threads, file, uuid_next, issued>>

\* failing names the step of save_to_disk that raises, "none" when none does
save_to_disk(failing) ==
    /\ file' \in SaveToDisk(file, collections, index_definitions, failing)
    /\ last' = NoCall
    /\ UNCHANGED <<log, auth, threads, collections, index_definitions, indexes, uuid_next, issued>>

\* DATABASE_FILE.unlink(), or a file put in place of it that is empty or does not decrypt
external_overwrite(kind) ==
    /\ file' = EmptyFile(kind)
    /\ UNCHANGED <<log, auth, threads, collections, index_definitions, indexes, uuid_next, issued, last>>

-----------------------------------------------------------------------------
(* Threads. The server runs the store's operations on several threads; a    *)
(* thread is outside any call (idle), at "with self._lock" of the call it    *)
(* made (acquire), inside the with block (body), or at the end of the with   *)
(* block with the lock still held (release), where it holds what the call    *)
(* is about to return.                                                        *)

Threads == {1, 2}

Call(at, op, arg, out, raised) ==
    [at |-> at, op |-> op, arg |-> arg, out |-> out, raised |-> raised]

Idle == Call("idle", "none", <<>>, <<>>, FALSE)

-----------------------------------------------------------------------------
(* Inputs *)

\* the _id values queries ask for
QueryIds == {1, 2}

EqClauses ==
    {Clause("f", "eq", v) : v \in FVals \cup {NULL}}
    \cup {Clause("_id", "eq", v) : v \in QueryIds}

Clauses == EqClauses \cup {Clause("f", "$gt", 1), Clause("a.b", "eq", 1)}

\* every query of at most two clauses on different fields
Queries ==
    {<<>>} \cup {<<a>> : a \in Clauses}
    \cup {<<ab[1], ab[2]>> : ab \in {x \in Clauses \X Clauses : x[1].k # x[2].k}}

\* the queries of at most one clause
SingleQueries == {<<>>} \cup {<<a>> : a \in Clauses}

\* the queries update and delete are called with
CallQueries == {<<>>, <<Clause("f", "eq", 1)>>, <<Clause("_id", "eq", 2)>>}

\* A file that an earlier run of the program saved: one document, and the
\* definitions create_index(c1, "f") and create_index(c1, "a.b") left.
SeedFile ==
    [kind |-> "ok",
     collections |-> [c \in {"c1"} |-> <<Payload(1, 1, 1)>>],
     index_definitions |-> [c \in {"c1"} |-> <<"f", "a.b">>]]

IdsIn(f, c) ==
    IF c \in DOMAIN f.collections
    THEN {f.collections[c][i]["_id"] : i \in 1..Len(f.collections[c])}
    ELSE {}

\* AstroDB(): self._indexes = {}, then load_from_disk() of the file found at start.
\* uuid4 does not repeat the _ids of the file.
Init ==
    /\ file \in {EmptyFile("missing"), SeedFile}
    /\ LET r == LoadFromDisk(EmptyMap, file)
       IN /\ collections = r.colls
          /\ index_definitions = r.defs
          /\ indexes = r.idx
    /\ issued = [c \in CollNames |-> IdsIn(file, c)]
    /\ uuid_next = Cardinality(UNION {issued[c] : c \in CollNames}) + 1
    /\ last = NoCall
    /\ _lock = FALSE
    /\ pc = [t \in Threads |-> Idle]
    /\ _users_db = EmptyMap
    /\ _failed_login_attempts = EmptyMap
    /\ now = 0
    /\ log = <<>>

Next ==
    \/ \E c \in CollNames, p \in InsertPayloads, o \in Owners : insert_one(c, p, o)
    \/ \E c \in CollNames, ps \in InsertManyPayloads, o \in Owners : insert_many(c, ps, o)
    \/ \E c \in CollNames, q \in CallQueries, u \in UpdatePayloads, o \in Owners :
            update_one(c, q, u, o)
    \/ \E c \in CollNames, q \in CallQueries, u \in UpdatePayloads, o \in Owners :
            update_many(c, q, u, o)
    \/ \E c \in CollNames, q \in CallQueries, o \in Owners : delete_one(c, q, o)
    \/ \E c \in CollNames, q \in CallQueries, o \in Owners : delete_many(c, q, o)
    \/ \E c \in CollNames, q \in {<<>>}, o \in Owners : find(c, q, o)
    \/ \E c \in CollNames, q \in {<<>>}, o \in Owners : find_many(c, q, o)
    \/ \E c \in CollNames, q \in {<<>>}, o \in Owners : find_one(c, q, o)
    \/ \E c \in CollNames, fld \in UserFields : create_index(c, fld)
    \/ load_from_disk

Spec == Init /\ [][Next]_vars

-----------------------------------------------------------------------------
(* Callers that keep the documents the store handed them.                   *)
(* insert_one appends the caller's own dict and returns it, and find returns *)
(* the dicts of the collection or of the index: the caller and the store    *)
(* hold the same object.                                                     *)

\* returned[k] = v by a caller, on the object at position i of c
caller_write(c, i, k, v) ==
    /\ c \in DOMAIN collections
    /\ i \in 1..Len(collections[c])
    /\ collections[c][i][k] # v
    /\ LET doc == collections[c][i]
           new_doc == [doc EXCEPT ![k] = v]
       IN /\ collections' = WriteCollections(collections, doc["ref"], new_doc)
          /\ indexes' = WriteIndexes(indexes, doc["ref"], new_doc)
          /\ last' = Result("caller_write", c, <<>>, <<new_doc>>)
    /\ UNCHANGED <<log, auth, threads, index_definitions, file, uuid_next, issued>>

\* insert_one(c, d, owner_id) by a caller that passes, as d, the dict it passed
\* to an earlier insert: the object at position i of c is stamped again and
\* appended again
insert_one_again(c, i, owner_id) ==
    /\ uuid_next <= MaxIds
    /\ c \in DOMAIN collections
    /\ i \in 1..Len(collections[c])
    /\ LET doc == collections[c][i]
           stamped == Stamp(doc, doc["ref"], uuid_next, owner_id)
       IN /\ collections' = [WriteCollections(collections, doc["ref"], stamped)
                                EXCEPT ![c] = Append(@, stamped)]
          /\ indexes' = _update_indexes_on_insert(
                            WriteIndexes(indexes, doc["ref"], stamped), c, stamped)
          /\ uuid_next' = uuid_next + 1
          /\ issued' = [issued EXCEPT ![c] = @ \cup {uuid_next}]
          /\ last' = Result("insert_one", c, <<Dump(doc)>>, <<stamped>>)
    /\ UNCHANGED <<log, auth, threads, index_definitions, file>>

NextAlias ==
    \/ \E c \in CollNames, i \in Ids, o \in Owners : insert_one_again(c, i, o)
    \/ \E c \in CollNames, p \in InsertPayloads, o \in Owners : insert_one(c, p, o)
    \/ \E c \in CollNames, q \in CallQueries, o \in Owners : delete_one(c, q, o)
    \/ \E c \in CollNames, q \in {<<>>}, o \in Owners : find(c, q, o)
    \/ \E c \in CollNames, i \in Ids, v \in FVals : caller_write(c, i, "f", v)

SpecAlias == Init /\ [][NextAlias]_vars

-----------------------------------------------------------------------------
(* The store and its file: saves that succeed or fail, loads, and a file    *)
(* that is removed or replaced from outside.                                *)

FileKinds == {"missing", "empty", "corrupt"}

NextDisk ==
    \/ \E c \in CollNames, fv \in FVals, o \in Owners :
            insert_one(c, Payload(ABSENT, ABSENT, fv), o)
    \/ \E c \in CollNames, fld \in UserFields : create_index(c, fld)
    \/ \E failing \in {"none"} \cup SaveSteps : save_to_disk(failing)
    \/ load_from_disk
    \/ \E kind \in FileKinds : external_overwrite(kind)

SpecDisk == Init /\ [][NextDisk]_vars

-----------------------------------------------------------------------------
(* Every operation of the store next to the saves and to a file that is     *)
(* removed from outside, with one payload and one query each.                *)

NextFile ==
    \/ \E c \in CollNames, o \in Owners : insert_one(c, Payload(ABSENT, ABSENT, 1), o)
    \/ \E c \in CollNames, ps \in InsertManyPayloads : insert_many(c, ps, 1)
    \/ \E c \in CollNames : update_one(c, <<>>, Payload(1, 2, 2), 1)
    \/ \E c \in CollNames : update_many(c, <<>>, Payload(1, 2, 2), 1)
    \/ \E c \in CollNames : delete_one(c, <<>>, 1)
    \/ \E c \in CollNames : delete_many(c, <<>>, 1)
    \/ \E c \in CollNames : find(c, <<>>, 1)
    \/ \E c \in CollNames : find_many(c, <<>>, 1)
    \/ \E c \in CollNames : find_one(c, <<>>, 1)
    \/ \E c \in CollNames, fld \in UserFields : create_index(c, fld)
    \/ \E failing \in {"none", "write"} : save_to_disk(failing)
    \/ external_overwrite("missing")

SpecFile == Init /\ [][NextFile]_vars

-----------------------------------------------------------------------------
(* A store started on a file that holds several documents of both owners,   *)
(* and the operations that work on many documents.                          *)

\* the files an earlier run saved: documents 1, 2, ... of either owner with
\* f = 1 or f = 2, f indexed
SeedFiles ==
    {[kind |-> "ok",
      collections |-> [c \in {"c1"} |-> [i \in 1..(MaxIds + 1) |-> Payload(i, ow[i], fv[i])]],
      index_definitions |-> [c \in {"c1"} |-> <<"f">>]] :
        ow \in [1..(MaxIds + 1) -> Owners], fv \in [1..(MaxIds + 1) -> FVals]}

InitMany ==
    /\ file \in SeedFiles
    /\ LET r == LoadFromDisk(EmptyMap, file)
       IN /\ collections = r.colls
          /\ index_definitions = r.defs
          /\ indexes = r.idx
    /\ issued = [c \in CollNames |-> IdsIn(file, c)]
    /\ uuid_next = Cardinality(UNION {issued[c] : c \in CollNames}) + 1
    /\ last = NoCall
    /\ _lock = FALSE
    /\ pc = [t \in Threads |-> Idle]
    /\ _users_db = EmptyMap
    /\ _failed_login_attempts = EmptyMap
    /\ now = 0
    /\ log = <<>>

ManyQueries == {<<>>, <<Clause("f", "eq", 1)>>}

NextMany ==
    \/ \E c \in CollNames, q \in ManyQueries, o \in Owners : delete_many(c, q, o)
    \/ \E c \in CollNames, q \in ManyQueries, o \in Owners :
            update_many(c, q, Payload(1, 2, 2), o)
    \/ \E c \in CollNames, o \in Owners : delete_one(c, <<>>, o)
    \/ \E c \in CollNames, o \in Owners : find_many(c, <<>>, o)

SpecMany == InitMany /\ [][NextMany]_vars

\* the same store under update_one alone
NextUpdate ==
    \E c \in CollNames, q \in CallQueries, o \in Owners :
        update_one(c, q, Payload(1, 2, 2), o)

SpecUpdate == InitMany /\ [][NextUpdate]_vars

-----------------------------------------------------------------------------
(* The store called from several threads. Thread t acts for owner t. Every  *)
(* public operation is one "with self._lock" block: the thread waits at the *)
(* block until the lock is free, runs the body, and frees the lock when it  *)
(* leaves the block. The loop of insert_many takes one step per document;   *)
(* the other bodies are one step. The saves of these threads fail, before   *)
(* or after the file is opened; SpecDisk has the saves that succeed.         *)

ThreadPayloads == <<Payload(ABSENT, ABSENT, 1), Payload(ABSENT, ABSENT, 2)>>

\* the calls a thread makes: operation and argument
ThreadCalls ==
    {<<"insert_many", ThreadPayloads>>, <<"insert_one", <<Payload(ABSENT, ABSENT, 1)>>>>,
     <<"find", <<>>>>, <<"update_many", <<>>>>, <<"delete_many", <<>>>>,
     <<"create_index", <<>>>>, <<"load_from_disk", <<>>>>}
    \cup {<<"save_to_disk", <<failing>>>> : failing \in {"open", "write"}}

\* the documents that the calls already made will still insert
RECURSIVE Pending(_)
Pending(ts) ==
    IF ts = {} THEN 0
    ELSE LET t == CHOOSE x \in ts : TRUE
         IN (IF pc[t].at \in {"acquire", "body"} /\ pc[t].op \in {"insert_many", "insert_one"}
             THEN Len(pc[t].arg) - Len(pc[t].out) ELSE 0) + Pending(ts \ {t})

\* the number of documents a call inserts; calls are made while _ids are left
Inserting(call) == IF call[1] \in {"insert_many", "insert_one"} THEN Len(call[2]) ELSE 0

call(t, op, arg) ==
    /\ pc[t].at = "idle"
    /\ uuid_next + Pending(Threads) + Inserting(<<op, arg>>) <= MaxIds + 1
    /\ pc' = [pc EXCEPT ![t] = Call("acquire", op, arg, <<>>, FALSE)]
    /\ UNCHANGED <<log, auth, collections, index_definitions, indexes, file, uuid_next, issued, last, _lock>>

\* a with block entered whether or not the lock is free
acquire_without_waiting(t) ==
    /\ pc[t].at = "acquire"
    /\ _lock' = TRUE
    /\ pc' = [pc EXCEPT ![t].at = "body"]
    /\ UNCHANGED <<log, auth, collections, index_definitions, indexes, file, uuid_next, issued, last>>

\* with self._lock: Lock.acquire() blocks until the lock is free
acquire(t) ==
    /\ pc[t].at = "acquire"
    /\ ~_lock
    /\ _lock' = TRUE
    /\ pc' = [pc EXCEPT ![t].at = "body"]
    /\ UNCHANGED <<log, auth, collections, index_definitions, indexes, file, uuid_next, issued, last>>

\* a lock freed by a release() at the end of the body, which a body that
\* raises does not reach
release_unless_raised(t) ==
    /\ pc[t].at = "release"
    /\ _lock' = pc[t].raised
    /\ pc' = [pc EXCEPT ![t] = Idle]
    /\ UNCHANGED <<log, auth, collections, index_definitions, indexes, file, uuid_next, issued, last>>

\* the end of the with block: Lock.release(), also when the body raised, and
\* the call returns or the exception goes on to the caller
release(t) ==
    /\ pc[t].at = "release"
    /\ _lock' = FALSE
    /\ pc' = [pc EXCEPT ![t] = Idle]
    /\ UNCHANGED <<log, auth, collections, index_definitions, indexes, file, uuid_next, issued, last>>

InBody(t, op) == pc[t].at = "body" /\ pc[t].op = op

\* an insert loop that gives the lock up after each document
run_insert_step_releasing(t) ==
    /\ pc[t].at = "body" /\ pc[t].op \in {"insert_many", "insert_one"}
    /\ LET st == [colls |-> WithCollection(collections, "c1"), idx |-> indexes,
                  next |-> uuid_next, out |-> pc[t].out, raised |-> FALSE]
           r == InsertStep(st, "c1", pc[t].arg[Len(pc[t].out) + 1], t)
       IN /\ collections' = r.colls
          /\ indexes' = r.idx
          /\ uuid_next' = r.next
          /\ issued' = [issued EXCEPT !["c1"] = @ \cup {uuid_next}]
          /\ pc' = [pc EXCEPT ![t].out = r.out,
                              ![t].raised = r.raised,
                              ![t].at = IF r.raised \/ Len(r.out) = Len(pc[t].arg)
                                        THEN "release" ELSE "body"]
    /\ _lock' = (Len(pc[t].out) + 1 = Len(pc[t].arg))
    /\ UNCHANGED <<log, auth, index_definitions, file, last>>

\* one round of the loop of insert_many, or the body of insert_one
run_insert_step(t) ==
    /\ pc[t].at = "body" /\ pc[t].op \in {"insert_many", "insert_one"}
    /\ LET st == [colls |-> WithCollection(collections, "c1"), idx |-> indexes,
                  next |-> uuid_next, out |-> pc[t].out, raised |-> FALSE]
           r == InsertStep(st, "c1", pc[t].arg[Len(pc[t].out) + 1], t)
       IN /\ collections' = r.colls
          /\ indexes' = r.idx
          /\ uuid_next' = r.next
          /\ issued' = [issued EXCEPT !["c1"] = @ \cup {uuid_next}]
          /\ pc' = [pc EXCEPT ![t].out = r.out,
                              ![t].raised = r.raised,
                              ![t].at = IF r.raised \/ Len(r.out) = Len(pc[t].arg)
                                        THEN "release" ELSE "body"]
    /\ UNCHANGED <<log, auth, index_definitions, file, last, _lock>>

run_find(t) ==
    /\ InBody(t, "find")
    /\ pc' = [pc EXCEPT ![t].out = Find(collections, indexes, "c1", <<>>, t),
                        ![t].at = "release"]
    /\ UNCHANGED <<log, auth, collections, index_definitions, indexes, file, uuid_next, issued, last, _lock>>

run_update_many(t) ==
    /\ InBody(t, "update_many")
    /\ LET r == UpdateMany(collections, indexes, "c1", <<>>, Payload(1, 2, 2), t)
       IN /\ collections' = r.colls
          /\ indexes' = r.idx
    /\ pc' = [pc EXCEPT ![t].at = "release"]
    /\ UNCHANGED <<log, auth, index_definitions, file, uuid_next, issued, last, _lock>>

run_delete_many(t) ==
    /\ InBody(t, "delete_many")
    /\ LET r == DeleteMany(collections, indexes, "c1", <<>>, t)
       IN /\ collections' = r.colls
          /\ indexes' = r.idx
    /\ pc' = [pc EXCEPT ![t].at = "release"]
    /\ UNCHANGED <<log, auth, index_definitions, file, uuid_next, issued, last, _lock>>

\* find_one calls find_many, which calls find: the with block is the one of find
run_find_one(t) ==
    /\ InBody(t, "find_one")
    /\ pc' = [pc EXCEPT ![t].out = FindOne(collections, indexes, "c1", <<>>, t),
                        ![t].at = "release"]
    /\ UNCHANGED <<log, auth, collections, index_definitions, indexes, file, uuid_next, issued, last, _lock>>

run_create_index(t) ==
    /\ InBody(t, "create_index")
    /\ LET r == CreateIndex(collections, index_definitions, indexes, "c1", "f")
       IN /\ indexes' = r.idx
          /\ index_definitions' = r.defs
    /\ pc' = [pc EXCEPT ![t].at = "release",
                        ![t].raised = CreateIndexRaises(collections, "c1", "f")]
    /\ UNCHANGED <<log, auth, collections, file, uuid_next, issued, last, _lock>>

run_load_from_disk(t) ==
    /\ InBody(t, "load_from_disk")
    /\ LET r == LoadFromDisk(indexes, file)
       IN /\ collections' = r.colls
          /\ index_definitions' = r.defs
          /\ indexes' = r.idx
          /\ pc' = [pc EXCEPT ![t].at = "release", ![t].raised = r.raised]
    /\ UNCHANGED <<log, auth, file, uuid_next, issued, last, _lock>>

run_save_to_disk(t) ==
    /\ InBody(t, "save_to_disk")
    /\ file' \in SaveToDisk(file, collections, index_definitions, pc[t].arg[1])
    /\ LET r == AfterSave(collections, index_definitions, indexes, pc[t].arg[1])
       IN /\ collections' = r.colls
          /\ index_definitions' = r.defs
          /\ indexes' = r.idx
          /\ pc' = [pc EXCEPT ![t].at = "release", ![t].raised = r.raised]
    /\ UNCHANGED <<log, auth, uuid_next, issued, last, _lock>>

NextThreads ==
    \/ \E t \in Threads, cl \in ThreadCalls : call(t, cl[1], cl[2])
    \/ \E t \in Threads : acquire(t)
    \/ \E t \in Threads : release(t)
    \/ \E t \in Threads : run_insert_step(t)
    \/ \E t \in Threads : run_find(t)
    \/ \E t \in Threads : run_update_many(t)
    \/ \E t \in Threads : run_delete_many(t)
    \/ \E t \in Threads : run_create_index(t)
    \/ \E t \in Threads : run_load_from_disk(t)
    \/ \E t \in Threads : run_save_to_disk(t)

SpecThreads == Init /\ [][NextThreads]_vars

-----------------------------------------------------------------------------
(* Threads that wait for each other. The calls are inserts, of which one    *)
(* raises once f is indexed, find and find_one, and create_index. A thread  *)
(* inside a with block goes on until it leaves it, and a thread that waits  *)
(* at a with block enters it at one of the times the lock is free.           *)

FairCalls ==
    {<<"insert_one", <<Payload(ABSENT, ABSENT, 1)>>>>,
     <<"insert_one", <<Payload(ABSENT, ABSENT, LIST)>>>>,
     <<"find", <<>>>>, <<"find_one", <<>>>>, <<"create_index", <<>>>>}

NextFair ==
    \/ \E t \in Threads, cl \in FairCalls : call(t, cl[1], cl[2])
    \/ \E t \in Threads : acquire(t)
    \/ \E t \in Threads : release(t)
    \/ \E t \in Threads : run_insert_step(t)
    \/ \E t \in Threads : run_find(t)
    \/ \E t \in Threads : run_find_one(t)
    \/ \E t \in Threads : run_create_index(t)

\* what thread t does inside a with block
InsideStep(t) ==
    \/ run_insert_step(t)
    \/ run_find(t)
    \/ run_find_one(t)
    \/ run_create_index(t)
    \/ release(t)

SpecFair ==
    /\ Init
    /\ [][NextFair]_vars
    /\ \A t \in Threads : WF_vars(InsideStep(t)) /\ SF_vars(acquire(t))

-----------------------------------------------------------------------------
(* Restore (src/automation_engine.py): restore_database copies a backup     *)
(* over the database file and then calls load_from_disk; other threads      *)
(* insert and save meanwhile.                                               *)

\* the backup: a file an earlier save wrote
BackupFile == SeedFile

\* shutil.copy(backup_file_path, DATABASE_FILE), made without the lock; the
\* call of db_instance.load_from_disk() comes next
restore_copy(t) ==
    /\ pc[t].at = "idle"
    /\ file' = BackupFile
    /\ pc' = [pc EXCEPT ![t] = Call("acquire", "load_from_disk", <<"restore_database">>, <<>>,
                                     FALSE)]
    /\ UNCHANGED <<log, auth, collections, index_definitions, indexes, uuid_next, issued, last,
                   _lock>>

RestoreCalls ==
    {<<"insert_one", <<Payload(ABSENT, ABSENT, 2)>>>>, <<"save_to_disk", <<"none">>>>}

NextRestore ==
    \/ \E t \in Threads : restore_copy(t)
    \/ \E t \in Threads, cl \in RestoreCalls : call(t, cl[1], cl[2])
    \/ \E t \in Threads : acquire(t)
    \/ \E t \in Threads : release(t)
    \/ \E t \in Threads : run_insert_step(t)
    \/ \E t \in Threads : run_load_from_disk(t)
    \/ \E t \in Threads : run_save_to_disk(t)

SpecRestore == Init /\ [][NextRestore]_vars

-----------------------------------------------------------------------------
(* Authentication (src/auth_engine.py): registered users, the record of     *)
(* failed logins, and a clock that counts minutes.                           *)

MAX_LOGIN_ATTEMPTS == 5
LOCKOUT_TIME_MINUTES == 5

\* the clock stops here
MaxTime == 6

\* a username is the owner_id of the documents its holder stores
Usernames == Owners
Passwords == {1, 2}

\* bcrypt.hashpw: the hash of a password is not the password
hash_password(password) == password + 100

\* bcrypt.checkpw
verify_password(plain_password, hashed_password) == hash_password(plain_password) = hashed_password

\* the lockout check of authenticate_user: a failure record that is younger
\* than LOCKOUT_TIME_MINUTES, whatever its count
LockedOut(failed, t, username) ==
    /\ username \in DOMAIN failed
    /\ t - failed[username].last_attempt < LOCKOUT_TIME_MINUTES

\* setdefault(username, {count: 0, ...}); count += 1; last_attempt = now
RecordFailure(failed, t, username) ==
    Put(failed, username,
        [count |-> (IF username \in DOMAIN failed THEN failed[username].count ELSE 0) + 1,
         last_attempt |-> t])

\* what authenticate_user returns, ret = <<>> for None, and the failure
\* record it leaves
AuthenticateUser(users, failed, t, username, password) ==
    IF LockedOut(failed, t, username) THEN [ret |-> <<>>, failed |-> failed]
    ELSE IF username \notin DOMAIN users THEN [ret |-> <<>>, failed |-> failed]
    ELSE IF ~verify_password(password, users[username])
         THEN [ret |-> <<>>, failed |-> RecordFailure(failed, t, username)]
         ELSE [ret |-> <<username>>,
               failed |-> IF username \in DOMAIN failed THEN Del(failed, username) ELSE failed]

register_user(username, password) ==
    /\ username \notin DOMAIN _users_db
    /\ _users_db' = Put(_users_db, username, hash_password(password))
    /\ UNCHANGED <<log, threads, store, file, uuid_next, issued, last, _failed_login_attempts, now>>

authenticate_user(username, password) ==
    /\ LET r == AuthenticateUser(_users_db, _failed_login_attempts, now, username, password)
       IN /\ _failed_login_attempts' = r.failed
          /\ last' = Result("authenticate_user", username, <<password>>, r.ret)
    /\ UNCHANGED <<log, threads, store, file, uuid_next, issued, _users_db, now>>

\* a minute passes
tick ==
    /\ now < MaxTime
    /\ now' = now + 1
    /\ UNCHANGED <<log, threads, store, file, uuid_next, issued, last, _users_db,
                   _failed_login_attempts>>

NextAuth ==
    \/ \E u \in Usernames, pw \in Passwords : register_user(u, pw)
    \/ \E u \in Usernames, pw \in Passwords : authenticate_user(u, pw)
    \/ tick

SpecAuth == Init /\ [][NextAuth]_vars

-----------------------------------------------------------------------------
(* The protocol layer (src/server.py): handle_command takes a request,      *)
(* checks its token, and calls the store with the token's subject as the    *)
(* owner_id. A token is what create_access_token signed: subject, role,     *)
(* the key it was signed with and the minute it expires.                    *)

SECRET_KEY == "SECRET_KEY"

Token(sub, role, key, exp) == [sub |-> sub, role |-> role, key |-> key, exp |-> exp]

\* a decode that reads the payload without checking signature or expiry
decode_access_token_unverified(token, t) == <<[sub |-> token.sub, role |-> token.role]>>

\* jwt.decode(token, SECRET_KEY): the payload, or None (<<>>) when the token
\* was signed with another key or has expired at minute t
decode_access_token(token, t) ==
    IF token.key = SECRET_KEY /\ token.exp > t
    THEN <<[sub |-> token.sub, role |-> token.role]>>
    ELSE <<>>

\* a request: data.get(k) for the keys handle_command reads; token is <<>>
\* when the request carries none, collection is "" when it carries none
Request(command, token, collection, documents) ==
    [command |-> command, token |-> token, collection |-> collection,
     documents |-> documents, query |-> <<>>, update_data |-> Payload(ABSENT, ABSENT, 2),
     field |-> "f"]

\* not document: the dict is empty
IsEmpty(document) == \A k \in DOMAIN document : document[k] = ABSENT

\* the call handle_command made to the store
Called(op, owner_id) == [op |-> op, owner_id |-> owner_id]

\* what handle_command leaves: the status of the reply, the store, and the
\* calls it made to the store
Reply(status, colls, defs, idx, next, calls) ==
    [status |-> status, colls |-> colls, defs |-> defs, idx |-> idx, next |-> next,
     calls |-> calls]

\* "owner_id" in doc and doc["owner_id"] != owner_id
NamesOtherOwner(doc, owner_id) == Has(doc, "owner_id") /\ doc["owner_id"] # owner_id

\* if "owner_id" not in document: document["owner_id"] = owner_id
WithOwner(doc, owner_id) ==
    IF Has(doc, "owner_id") THEN doc ELSE [doc EXCEPT !["owner_id"] = owner_id]

\* the commands after the token check, for the owner_id taken from the token
Dispatch(colls, defs, idx, next, data, owner_id) ==
    LET refused == Reply("error", colls, defs, idx, next, <<>>)
        c == data.collection
        docs == data.documents
    IN CASE data.command = "INSERT_ONE" ->
                IF c = "" \/ docs = <<>> \/ IsEmpty(docs[1]) THEN refused
                ELSE IF NamesOtherOwner(docs[1], owner_id) THEN refused
                ELSE LET r == InsertOne(colls, idx, next, c, WithOwner(docs[1], owner_id), owner_id)
                     IN Reply(IF r.raised THEN "error" ELSE "ok", r.colls, defs, r.idx, r.next,
                              <<Called("insert_one", owner_id)>>)
         [] data.command = "INSERT_MANY" ->
                IF c = "" \/ docs = <<>> THEN refused
                ELSE IF \E i \in 1..Len(docs) : NamesOtherOwner(docs[i], owner_id) THEN refused
                ELSE LET r == InsertMany(colls, idx, next, c,
                                         [i \in 1..Len(docs) |-> WithOwner(docs[i], owner_id)],
                                         owner_id)
                     IN Reply(IF r.raised THEN "error" ELSE "ok", r.colls, defs, r.idx, r.next,
                              <<Called("insert_many", owner_id)>>)
         [] data.command \in {"FIND", "FIND_MANY"} ->
                IF c = "" THEN refused
                ELSE Reply("ok", colls, defs, idx, next, <<Called("find", owner_id)>>)
         [] data.command = "FIND_ONE" ->
                IF c = "" THEN refused
                ELSE Reply(IF FindOne(colls, idx, c, data.query, owner_id) # <<>>
                           THEN "ok" ELSE "error",
                           colls, defs, idx, next, <<Called("find_one", owner_id)>>)
         [] data.command = "UPDATE_ONE" ->
                IF c = "" \/ IsEmpty(data.update_data) THEN refused
                ELSE LET r == UpdateOne(colls, idx, c, data.query, data.update_data, owner_id)
                     IN Reply(IF r.ret # <<>> THEN "ok" ELSE "error", r.colls, defs, r.idx, next,
                              <<Called("update_one", owner_id)>>)
         [] data.command = "UPDATE_MANY" ->
                IF c = "" \/ IsEmpty(data.update_data) THEN refused
                ELSE LET r == UpdateMany(colls, idx, c, data.query, data.update_data, owner_id)
                     IN Reply("ok", r.colls, defs, r.idx, next, <<Called("update_many", owner_id)>>)
         [] data.command = "DELETE_ONE" ->
                IF c = "" THEN refused
                ELSE LET r == DeleteOne(colls, idx, c, data.query, owner_id)
                     IN Reply(IF r.ret # <<>> THEN "ok" ELSE "error", r.colls, defs, r.idx, next,
                              <<Called("delete_one", owner_id)>>)
         [] data.command = "DELETE_MANY" ->
                IF c = "" THEN refused
                ELSE LET r == DeleteMany(colls, idx, c, data.query, owner_id)
                     IN Reply("ok", r.colls, defs, r.idx, next, <<Called("delete_many", owner_id)>>)
         [] data.command = "CREATE_INDEX" ->
                IF c = "" THEN refused
                ELSE LET r == CreateIndex(colls, defs, idx, c, data.field)
                     IN Reply(IF CreateIndexRaises(colls, c, data.field) THEN "error" ELSE "ok",
                              colls, r.defs, r.idx, next, <<Called("create_index", owner_id)>>)
         [] OTHER -> refused  \* response = Unknown command

\* handle_command for the commands that need a token, at minute t
HandleCommand(colls, defs, idx, next, t, data) ==
    LET refused == Reply("error", colls, defs, idx, next, <<>>)
    IN IF data.token = <<>> THEN refused  \* if not token
       ELSE LET user_payload == decode_access_token(data.token[1], t)
            IN IF user_payload = <<>> THEN refused  \* if not user_payload
               ELSE Dispatch(colls, defs, idx, next, data, user_payload[1].sub)

\* REGISTER and LOGIN: handled before the token is looked at
handle_register(username, password) ==
    /\ _users_db' = IF username \in DOMAIN _users_db THEN _users_db
                    ELSE Put(_users_db, username, hash_password(password))
    /\ last' = Result("REGISTER", "", <<>>,
                      <<IF username \in DOMAIN _users_db THEN "error" ELSE "ok">>)
    /\ UNCHANGED <<log, threads, store, file, uuid_next, issued, _failed_login_attempts, now>>

handle_login(username, password) ==
    /\ LET r == AuthenticateUser(_users_db, _failed_login_attempts, now, username, password)
       IN /\ _failed_login_attempts' = r.failed
          /\ last' = Result("LOGIN", "", <<>>, <<IF r.ret # <<>> THEN "ok" ELSE "error">>)
    /\ UNCHANGED <<log, threads, store, file, uuid_next, issued, _users_db, now>>

handle_command(data) ==
    /\ LET r == HandleCommand(collections, index_definitions, indexes, uuid_next, now, data)
       IN /\ r.next <= MaxIds + 1
          /\ collections' = r.colls
          /\ index_definitions' = r.defs
          /\ indexes' = r.idx
          /\ uuid_next' = r.next
          /\ issued' = [c \in CollNames |->
                            IF c = data.collection THEN issued[c] \cup (uuid_next..(r.next - 1))
                            ELSE issued[c]]
          /\ last' = Result(data.command, data.collection, <<data.token, data.documents>>,
                            <<r.status>>)
    /\ UNCHANGED <<log, threads, file, auth>>

\* the tokens requests carry: of either user, signed by the server; signed
\* by someone else; expired
Tokens ==
    {Token(sub, "user", SECRET_KEY, MaxTime + 30) : sub \in Owners}
    \cup {Token(1, "user", "other", MaxTime + 30), Token(1, "user", SECRET_KEY, 0)}

\* what a request carries as its token: nothing, or one of the tokens
RequestTokens == {<<>>} \cup {<<x>> : x \in Tokens}

\* documents of requests: without owner_id, with an owner_id, empty
RequestDocuments ==
    {<<Payload(ABSENT, ABSENT, 1)>>, <<Payload(ABSENT, 1, 1)>>, <<Payload(ABSENT, 2, 2)>>,
     <<Payload(ABSENT, ABSENT, ABSENT)>>,
     <<Payload(ABSENT, ABSENT, 1), Payload(ABSENT, 2, 2)>>}

\* the commands that carry no documents; "PING" is a command the server does not know
Commands ==
    {"FIND", "FIND_MANY", "FIND_ONE", "UPDATE_ONE", "UPDATE_MANY", "DELETE_ONE",
     "DELETE_MANY", "CREATE_INDEX", "PING"}

Requests ==
    {Request(cmd, tok, "c1", docs) :
        cmd \in {"INSERT_ONE", "INSERT_MANY"}, tok \in RequestTokens, docs \in RequestDocuments}
    \cup {Request(cmd, tok, "c1", <<>>) : cmd \in Commands, tok \in RequestTokens}
    \cup {Request(cmd, <<Token(1, "user", SECRET_KEY, MaxTime + 30)>>, "", <<>>) :
              cmd \in {"INSERT_ONE", "FIND"}}

\* the tokens of owner 1 and of owner 2
TokenOf(sub) == <<Token(sub, "user", SECRET_KEY, MaxTime + 30)>>

\* the requests the clients of this specification send
SentRequests ==
    {Request("INSERT_ONE", tok, "c1", docs) :
        tok \in {TokenOf(1), TokenOf(2), <<Token(1, "user", "other", MaxTime + 30)>>},
        docs \in {<<Payload(ABSENT, ABSENT, 1)>>, <<Payload(ABSENT, 2, 2)>>}}
    \cup {Request("INSERT_MANY", tok, "c1", <<Payload(ABSENT, ABSENT, 1), Payload(ABSENT, 2, 2)>>) :
              tok \in {TokenOf(1), TokenOf(2)}}
    \cup {Request(cmd, TokenOf(1), "c1", <<>>) :
              cmd \in {"FIND", "FIND_ONE", "UPDATE_ONE", "DELETE_ONE", "CREATE_INDEX", "PING"}}
    \cup {Request(cmd, TokenOf(2), "c1", <<>>) : cmd \in {"FIND_MANY", "UPDATE_MANY", "DELETE_MANY"}}
    \cup {Request("FIND", <<>>, "c1", <<>>),
          Request("CREATE_INDEX", <<Token(1, "user", SECRET_KEY, 0)>>, "c1", <<>>),
          Request("FIND", TokenOf(1), "", <<>>)}

NextServer ==
    \/ handle_register(1, 1)
    \/ \E pw \in Passwords : handle_login(1, pw)
    \/ \E data \in SentRequests : handle_command(data)

SpecServer == Init /\ [][NextServer]_vars

-----------------------------------------------------------------------------
(* Tenants: the calls made to the store are kept in log, so that the store  *)
(* can be compared with the store the same calls leave when those of one    *)
(* owner are taken out.                                                     *)

MaxLog == 4

\* a call as log keeps it; next is the value uuid.uuid4() returned to it
Entry(op, c, query, payload, owner_id, next) ==
    [op |-> op, c |-> c, query |-> query, payload |-> payload, owner_id |-> owner_id,
     next |-> next]

NoPayload == Payload(ABSENT, ABSENT, ABSENT)

StoreOf(colls, defs, idx) == [colls |-> colls, defs |-> defs, idx |-> idx]

\* the store after the call e
Apply(st, e) ==
    CASE e.op = "insert_one" ->
             LET r == InsertOne(st.colls, st.idx, e.next, e.c, e.payload, e.owner_id)
             IN StoreOf(r.colls, st.defs, r.idx)
      [] e.op = "update_one" ->
             LET r == UpdateOne(st.colls, st.idx, e.c, e.query, e.payload, e.owner_id)
             IN StoreOf(r.colls, st.defs, r.idx)
      [] e.op = "delete_one" ->
             LET r == DeleteOne(st.colls, st.idx, e.c, e.query, e.owner_id)
             IN StoreOf(r.colls, st.defs, r.idx)
      [] e.op = "create_index" ->
             LET r == CreateIndex(st.colls, st.defs, st.idx, e.c, "f")
             IN StoreOf(st.colls, r.defs, r.idx)

RECURSIVE ReplayFrom(_, _, _)
ReplayFrom(st, entries, i) ==
    IF i > Len(entries) THEN st ELSE ReplayFrom(Apply(st, entries[i]), entries, i + 1)

\* the store the calls of entries leave, made in that order on a new store
Replay(entries) == ReplayFrom(StoreOf(EmptyMap, EmptyMap, EmptyMap), entries, 1)

\* the calls of entries without the inserts, updates and deletes of owner_id
Without(entries, owner_id) ==
    SelectSeq(entries, LAMBDA e : e.op = "create_index" \/ e.owner_id # owner_id)

\* a call is made, and kept in log
logged(e) ==
    /\ Len(log) < MaxLog
    /\ e.op = "insert_one" => uuid_next <= MaxIds
    /\ LET st == Apply(StoreOf(collections, index_definitions, indexes), e)
       IN /\ collections' = st.colls
          /\ index_definitions' = st.defs
          /\ indexes' = st.idx
    /\ uuid_next' = IF e.op = "insert_one" THEN uuid_next + 1 ELSE uuid_next
    /\ issued' = IF e.op = "insert_one" THEN [issued EXCEPT ![e.c] = @ \cup {uuid_next}]
                 ELSE issued
    /\ log' = Append(log, e)
    /\ last' = NoCall
    /\ UNCHANGED <<auth, threads, file>>

InitTenants == Init /\ file = EmptyFile("missing")

NextTenants ==
    \/ \E fv \in FVals, o \in Owners :
           logged(Entry("insert_one", "c1", <<>>, Payload(ABSENT, ABSENT, fv), o, uuid_next))
    \/ \E o \in Owners :
           logged(Entry("update_one", "c1", <<>>, Payload(ABSENT, ABSENT, 2), o, 0))
    \/ \E o \in Owners : logged(Entry("delete_one", "c1", <<>>, NoPayload, o, 0))
    \/ logged(Entry("create_index", "c1", <<>>, NoPayload, 0, 0))

SpecTenants == InitTenants /\ [][NextTenants]_vars

-----------------------------------------------------------------------------
(* The predicate evaluator called on its own: a document and a query are    *)
(* chosen, and matches is applied to them. The call and its result are kept *)
(* in last.                                                                  *)

\* documents with and without f, with f = None, with and without a.b
MatchDocs ==
    {Nested(Payload(1, 1, fv), x) : fv \in FVals \cup {ABSENT, NULL}, x \in {ABSENT, 1}}

And(subs) == Clause("$and", "$and", subs)
Or(subs) == Clause("$or", "$or", subs)

\* the queries that stand inside "$and" and "$or"
SubQueries ==
    {<<>>, <<Clause("f", "eq", 1)>>, <<Clause("f", "$gt", 1)>>, <<Clause("a.b", "eq", 1)>>}

\* lists of at most two such queries
SubLists == {<<>>} \cup {<<x>> : x \in SubQueries} \cup {<<x, y>> : x, y \in SubQueries}

\* a key next to "$and" or "$or" at the same level
Sibling == Clause("f", "eq", 2)

\* queries with "$and" or "$or": alone, one inside the other, both at one
\* level, and with a sibling key before or after
LogicQueries ==
    {<<And(l)>> : l \in SubLists} \cup {<<Or(l)>> : l \in SubLists}
    \cup {<<And(<<x, <<Or(<<y, z>>)>>>>)>> : x, y, z \in SubQueries}
    \cup {<<Or(<<x, <<And(<<y, z>>)>>>>)>> : x, y, z \in SubQueries}
    \cup {<<And(<<x>>), Or(<<y>>)>> : x, y \in SubQueries}
    \cup {<<Or(<<y>>), And(<<x>>)>> : x, y \in SubQueries}
    \cup {<<And(l), Sibling>> : l \in SubLists} \cup {<<Sibling, And(l)>> : l \in SubLists}
    \cup {<<Or(l), Sibling>> : l \in SubLists} \cup {<<Sibling, Or(l)>> : l \in SubLists}

FClauses ==
    {Clause("f", "eq", 1), Clause("f", "eq", NULL), Clause("f", "$gt", 1), Clause("f", "$ne", 1)}

ABClauses == {Clause("a.b", "eq", 1), Clause("a.b", "$ne", 1)}

\* queries without "$and" and "$or": at most one clause per key
PlainQueries ==
    {<<>>} \cup {<<x>> : x \in FClauses \cup ABClauses}
    \cup {<<x, y>> : x \in FClauses, y \in ABClauses}
    \cup {<<y, x>> : x \in FClauses, y \in ABClauses}

\* {"f": {"$exists": true}} and {"f": {"$exists": false}}
ExistsQueries == {<<Clause("f", "$exists", b)>> : b \in BOOLEAN}

InitMatch ==
    /\ file = EmptyFile("missing")
    /\ collections = EmptyMap
    /\ index_definitions = EmptyMap
    /\ indexes = EmptyMap
    /\ issued = [c \in CollNames |-> {}]
    /\ uuid_next = 1
    /\ _lock = FALSE
    /\ pc = [t \in Threads |-> Idle]
    /\ _users_db = EmptyMap
    /\ _failed_login_attempts = EmptyMap
    /\ now = 0
    /\ log = <<>>
    /\ \/ \E doc \in MatchDocs, query \in LogicQueries \cup PlainQueries :
              last = Result("matches", "", <<doc, query>>, <<>>)
       \/ \E doc \in MatchDocs, query \in ExistsQueries :
              last = Result("matches", "", <<doc, query>>, <<>>)

\* query_engine_instance.matches(document, query)
call_matches ==
    /\ last.op = "matches"
    /\ last.ret = <<>>
    /\ last' = [last EXCEPT !.ret = <<matches(last.arg[1], last.arg[2])>>]
    /\ UNCHANGED <<log, auth, threads, collections, index_definitions, indexes, file, uuid_next, issued>>

NextMatch == call_matches

SpecMatch == InitMatch /\ [][NextMatch]_vars

-----------------------------------------------------------------------------
(* The predicate evaluator on documents that hold lists, with "$elemMatch". *)
(* An evaluation ends with True, with False, or with a TypeError.           *)

\* an element of a list: a number, or a mapping
Element(scalar, doc) == [scalar |-> scalar, doc |-> doc]

\* the elements of the lists: [1, 2], [{"f": 1}], [{"f": 1}, 1]
Items(v) ==
    CASE v = LIST -> <<Element(TRUE, NoPayload), Element(TRUE, NoPayload)>>
      [] v = DICTS -> <<Element(FALSE, Payload(ABSENT, ABSENT, 1))>>
      [] v = MIXED -> <<Element(FALSE, Payload(ABSENT, ABSENT, 1)), Element(TRUE, NoPayload)>>

\* self.matches(item, op_value) for an element of the list and an op_value of
\* field clauses: with a number as document, _get_nested_value returns None
\* and `key not in document` raises TypeError, unless op_value has no key
ElementOutcome(item, op_value) ==
    IF ~item.scalar THEN (IF matches(item.doc, op_value) THEN "True" ELSE "False")
    ELSE IF op_value = <<>> THEN "True"
    ELSE "TypeError"

\* any(self.matches(item, op_value) for item in doc_value), from element i on
RECURSIVE AnyOutcome(_, _, _)
AnyOutcome(items, op_value, i) ==
    IF i > Len(items) THEN "False"
    ELSE LET r == ElementOutcome(items[i], op_value)
         IN IF r = "False" THEN AnyOutcome(items, op_value, i + 1) ELSE r

\* _match_field(doc_value, {"$elemMatch": op_value})
ElemMatchOutcome(doc_value, op_value) ==
    IF doc_value \notin Lists THEN "False" ELSE AnyOutcome(Items(doc_value), op_value, 1)

\* matches(doc, query) for a query of field clauses, from clause i on
RECURSIVE MatchesFrom(_, _, _)
MatchesFrom(doc, query, i) ==
    IF i > Len(query) THEN "True"
    ELSE LET doc_value == _get_nested_value(doc, query[i].k)
             r == IF doc_value = NULL /\ ~Has(doc, query[i].k) THEN "False"
                  ELSE IF query[i].op = "$elemMatch"
                       THEN ElemMatchOutcome(doc_value, query[i].v)
                       ELSE IF _match_field(doc_value, query[i]) THEN "True" ELSE "False"
         IN IF r = "True" THEN MatchesFrom(doc, query, i + 1) ELSE r

MatchesOutcome(doc, query) == MatchesFrom(doc, query, 1)

\* documents whose f is a list, a number, None, or missing
ElemDocs == {Payload(1, 1, fv) : fv \in Lists \cup {1, NULL, ABSENT}}

\* what stands under "$elemMatch"
OpValues ==
    {<<>>, <<Clause("f", "eq", 1)>>, <<Clause("f", "eq", 2)>>, <<Clause("f", "$gt", 1)>>,
     <<Clause("a.b", "eq", 1)>>}

InitElemMatch ==
    /\ file = EmptyFile("missing")
    /\ collections = EmptyMap
    /\ index_definitions = EmptyMap
    /\ indexes = EmptyMap
    /\ issued = [c \in CollNames |-> {}]
    /\ uuid_next = 1
    /\ _lock = FALSE
    /\ pc = [t \in Threads |-> Idle]
    /\ _users_db = EmptyMap
    /\ _failed_login_attempts = EmptyMap
    /\ now = 0
    /\ log = <<>>
    /\ \/ \E doc \in ElemDocs, v \in OpValues :
              last = Result("matches", "", <<doc, <<Clause("f", "$elemMatch", v)>>>>, <<>>)
       \/ \E doc \in ElemDocs, v \in OpValues, id \in {1, 2} :
              last = Result("matches", "",
                            <<doc, <<Clause("_id", "eq", id), Clause("f", "$elemMatch", v)>>>>,
                            <<>>)

\* query_engine_instance.matches(document, query): the call returns a
\* boolean, or ends with the exception
call_matches_on_list ==
    /\ last.op = "matches"
    /\ last.ret = <<>>
    /\ LET r == MatchesOutcome(last.arg[1], last.arg[2])
       IN last' = IF r = "TypeError" THEN [last EXCEPT !.op = "TypeError"]
                  ELSE [last EXCEPT !.op = "returned", !.ret = <<r = "True">>]
    /\ UNCHANGED <<log, auth, threads, collections, index_definitions, indexes, file, uuid_next,
                   issued>>

NextElemMatch == call_matches_on_list

SpecElemMatch == InitElemMatch /\ [][NextElemMatch]_vars

-----------------------------------------------------------------------------
(* Inputs the properties range over *)

\* every payload: any system fields the caller may have put in, any value of f
Payloads ==
    { Payload(i, w, fv) :
      i \in {ABSENT} \cup Ids, w \in {ABSENT} \cup Owners, fv \in FVals \cup {ABSENT, NULL} }

\* payloads that differ in the user field, and one that names the system fields
UserPayloads ==
    {Payload(ABSENT, ABSENT, fv) : fv \in FVals \cup {ABSENT, NULL}}
    \cup {Payload(1, 2, 1), Nested(Payload(ABSENT, ABSENT, 1), 1)}

Elems(s) == {s[i] : i \in 1..Len(s)}

StoredIds(docs) == {docs[i]["_id"] : i \in 1..Len(docs)}

-----------------------------------------------------------------------------
(* C1 *)

\* C1: insert_one, called in any reachable state with any payload, returns a
\* document whose _id is set, was never stamped in that collection before and is
\* carried by no other document of the collection, and whose owner_id is the
\* owner_id argument, whatever _id and owner_id the payload held.
C1_InsertStampsFreshIdAndOwner ==
    \A c \in CollNames, p \in Payloads, o \in Owners :
        LET r == InsertOne(collections, indexes, uuid_next, c, p, o)
            d == r.out[1]
            n == Len(r.colls[c])
        IN /\ Len(r.out) = 1
           /\ r.colls[c][n] = d
           /\ d["owner_id"] = o
           /\ d["_id"] \notin {ABSENT, NULL}
           /\ d["_id"] \notin issued[c]
           /\ \A i \in 1..(n - 1) : r.colls[c][i]["_id"] # d["_id"]

\* insert_one ran with a payload naming another owner and an _id already issued,
\* into a collection that held a document
C1_Witness ==
    /\ last.op = "insert_one"
    /\ Has(last.arg[1], "owner_id") /\ last.arg[1]["owner_id"] # last.ret[1]["owner_id"]
    /\ last.arg[1]["_id"] \in issued[last.c] \ {last.ret[1]["_id"]}
    /\ Len(collections[last.c]) >= 2

-----------------------------------------------------------------------------
(* C2 *)

\* C2: in every reachable state, every document that find, find_many or find_one
\* returns for (c, q, o) has owner_id = o and satisfies the whole query q, on
\* the index path as on the full scan.
C2_FindReturnsOwnedMatches ==
    \A c \in CollNames, q \in Queries, o \in Owners :
        \A d \in Elems(Find(collections, indexes, c, q, o))
                 \cup Elems(FindMany(collections, indexes, c, q, o))
                 \cup Elems(FindOne(collections, indexes, c, q, o)) :
            d["owner_id"] = o /\ matches(d, q)

\* the index answers a two-clause query with a candidate that one owner gets
\* and the other does not, and another query is answered by a scan
C2_Witness ==
    /\ "c1" \in DOMAIN collections
    /\ \E q \in Queries, o \in Owners, o2 \in Owners :
          /\ Len(q) = 2
          /\ _find_with_index(indexes, "c1", q).usable
          /\ Find(collections, indexes, "c1", q, o) # <<>>
          /\ Find(collections, indexes, "c1", q, o2) = <<>>
    /\ \E q \in Queries, o \in Owners :
          /\ ~_find_with_index(indexes, "c1", q).usable
          /\ Find(collections, indexes, "c1", q, o) # <<>>
    /\ \E i, j \in 1..Len(collections["c1"]) :
          collections["c1"][i]["owner_id"] # collections["c1"][j]["owner_id"]

-----------------------------------------------------------------------------
(* C3 *)

\* the values of field among docs are unique: no two documents hold the same
UniqueValues(docs, field) ==
    \A i, j \in 1..Len(docs) :
        (i # j /\ Has(docs[i], field) /\ Has(docs[j], field)) => docs[i][field] # docs[j][field]

\* C3: in every reachable state where the values of an indexed field f are unique
\* among the documents of c, find(c, {f: v}, o) through the index returns what
\* the full scan returns, for every v and o.
C3_IndexScanEquivalence ==
    \A c \in (DOMAIN collections) \cap (DOMAIN indexes) :
        \A a \in {x \in EqClauses : x.k \in DOMAIN indexes[c]}, o \in Owners :
            UniqueValues(collections[c], a.k) =>
                Find(collections, indexes, c, <<a>>, o) = FullScan(collections, c, <<a>>, o)

-----------------------------------------------------------------------------
(* C4 *)

\* the first document of c, in storage order, that o owns and q matches
FirstMatch(c, q, o) == collections[c][Min(Matching(collections[c], q, o))]

HasMatch(c, q, o) == c \in DOMAIN collections /\ Matching(collections[c], q, o) # {}

\* C4: delete_one(c, q, o) removes the first document in storage order that o
\* owns and q matches, and returns it.
C4_DeleteOneRemovesFirstMatch ==
    \A c \in CollNames, q \in Queries, o \in Owners :
        HasMatch(c, q, o) =>
            LET r == DeleteOne(collections, indexes, c, q, o)
            IN /\ r.ret = <<FirstMatch(c, q, o)>>
               /\ r.colls[c] = RemoveAt(collections[c], Min(Matching(collections[c], q, o)))

-----------------------------------------------------------------------------
(* C5 *)

\* C5: find_one(c, q, o) returns the first document in storage order that o owns
\* and q matches, or none when there is no such document, with or without an
\* index on a field of q.
C5_FindOneFirstInStorageOrder ==
    \A c \in CollNames, q \in Queries, o \in Owners :
        FindOne(collections, indexes, c, q, o) =
            IF HasMatch(c, q, o) THEN <<FirstMatch(c, q, o)>> ELSE <<>>

-----------------------------------------------------------------------------
(* C10 *)

\* C10: load_from_disk, run in any reachable state, leaves collections, index
\* definitions and indexes that are those of the file, or all empty when the file
\* was missing, empty or undecodable; no index entry from before the load remains.
C10_LoadReplacesWholeState ==
    LET r == LoadFromDisk(indexes, file)
    IN IF file.kind = "ok"
       THEN /\ r.colls = LoadCollections(file.collections)
            /\ r.defs = file.index_definitions
            /\ r.idx = _rebuild_indexes(r.colls, r.defs)
       ELSE /\ r.colls = EmptyMap
            /\ r.defs = EmptyMap
            /\ r.idx = EmptyMap

-----------------------------------------------------------------------------
(* C6 *)

\* C6: update_one(c, q, u, o), run in any reachable state, writes u without its
\* _id and owner_id into the first document in storage order that o owns and q
\* matches, leaves every other document as it was, and returns the updated
\* document; when no owned document matches it returns none and changes neither
\* the collections nor the indexes.
C6_UpdateOneUpdatesFirstMatch ==
    \A c \in CollNames, q \in Queries, u \in UpdatePayloads, o \in Owners :
        LET r == UpdateOne(collections, indexes, c, q, u, o)
        IN IF HasMatch(c, q, o)
           THEN LET i == Min(Matching(collections[c], q, o))
                IN /\ r.ret = <<DictUpdate(collections[c][i], Strip(u))>>
                   /\ Len(r.colls[c]) = Len(collections[c])
                   /\ r.colls[c][i] = r.ret[1]
                   /\ \A j \in 1..Len(collections[c]) :
                          j # i => r.colls[c][j] = collections[c][j]
           ELSE /\ r.ret = <<>>
                /\ r.colls = collections
                /\ r.idx = indexes

\* update_one has just written f = 2 into the first of two documents of one owner
\* and has left the second, which it could have taken, at f = 1
C6_Witness ==
    /\ last.op = "update_one"
    /\ last.ret # <<>>
    /\ Len(collections[last.c]) >= 2
    /\ collections[last.c][1] = last.ret[1]
    /\ collections[last.c][1]["f"] = 2
    /\ collections[last.c][2]["f"] = 1
    /\ collections[last.c][2]["owner_id"] = last.ret[1]["owner_id"]

-----------------------------------------------------------------------------
(* C7 *)

\* C7: a caller that writes into a document the store returned to it, or into
\* the document it passed to insert, changes neither the collections nor the
\* indexes.
C7_CallerMutationLeavesStoreUnchanged ==
    [][last'.op = "caller_write" => UNCHANGED <<collections, indexes>>]_vars

-----------------------------------------------------------------------------
(* C8 *)

\* C8: right after insert_one(c, d, o), run in any reachable state, find(c, q, o)
\* contains the inserted document for every query q that the document matches.
C8_InsertedDocumentIsFound ==
    \A c \in CollNames, p \in UserPayloads, o \in Owners :
        LET r == InsertOne(collections, indexes, uuid_next, c, p, o)
        IN \A q \in {x \in Queries : matches(r.out[1], x)} :
               r.out[1] \in Elems(Find(r.colls, r.idx, c, q, o))

-----------------------------------------------------------------------------
(* C9 *)

\* the positions of the documents of owner_id that hold value under field
Sharing(docs, field, value, owner_id) ==
    {i \in 1..Len(docs) :
        Has(docs[i], field) /\ docs[i][field] = value /\ Get(docs[i], "owner_id") = owner_id}

\* C9: in every reachable state a find answered from an index returns at most
\* one document; and when two documents of one owner share the value v of an
\* indexed field f, the full scan for {f: v} returns both and the lookup in the
\* index returns at most one.
C9_IndexedFindAtMostOne ==
    \A c \in DOMAIN collections, o \in Owners :
        /\ \A q \in Queries :
               _find_with_index(indexes, c, q).usable =>
                   Len(Find(collections, indexes, c, q, o)) <= 1
        /\ \A a \in {x \in EqClauses : c \in DOMAIN indexes /\ x.k \in DOMAIN indexes[c]} :
               Cardinality(Sharing(collections[c], a.k, a.v, o)) >= 2 =>
                   /\ \A i \in Sharing(collections[c], a.k, a.v, o) :
                          collections[c][i] \in Elems(FullScan(collections, c, <<a>>, o))
                   /\ Len(IndexedFind(indexes, c, <<a>>, o)) <= 1

\* two documents of owner 1 hold f = 1, f is indexed, the scan returns both and
\* find, answered from the index, returns one
C9_Witness ==
    /\ "c1" \in DOMAIN collections
    /\ "c1" \in DOMAIN indexes
    /\ "f" \in DOMAIN indexes["c1"]
    /\ Cardinality(Sharing(collections["c1"], "f", 1, 1)) >= 2
    /\ Len(FullScan(collections, "c1", <<Clause("f", "eq", 1)>>, 1)) >= 2
    /\ Len(Find(collections, indexes, "c1", <<Clause("f", "eq", 1)>>, 1)) = 1

-----------------------------------------------------------------------------
(* C11 *)

\* C11: when save_to_disk fails at any of its steps, in any reachable state, the
\* file is left exactly as it was before the call.
C11_FailedSaveKeepsFile ==
    \A failing \in SaveSteps :
        \A f \in SaveToDisk(file, collections, index_definitions, failing) : f = file

-----------------------------------------------------------------------------
(* C12 *)

\* C12: in every reachable state, for every collection c and every document of
\* c, c has an _id index and it maps the document's _id to that document.
C12_IdIndexedEverywhere ==
    \A c \in DOMAIN collections :
        \A i \in 1..Len(collections[c]) :
            /\ c \in DOMAIN indexes
            /\ "_id" \in DOMAIN indexes[c]
            /\ collections[c][i]["_id"] \in DOMAIN indexes[c]["_id"]
            /\ indexes[c]["_id"][collections[c][i]["_id"]] = collections[c][i]

-----------------------------------------------------------------------------
(* C13 *)

Exists(field, b) == <<Clause(field, "$exists", b)>>

\* the documents of the store, and the documents a caller may hand to matches
StoredDocs == UNION {Elems(collections[c]) : c \in DOMAIN collections}

\* C13: {field: {"$exists": false}} matches a document that lacks the field and
\* does not match one that holds a non-null value in it; {field: {"$exists":
\* true}} matches exactly when the field resolves to a non-null value.
C13_ExistsSemantics ==
    \A doc \in StoredDocs \cup Payloads, field \in UserFields :
        /\ ~Has(doc, field) => matches(doc, Exists(field, FALSE))
        /\ (Has(doc, field) /\ doc[field] # NULL) => ~matches(doc, Exists(field, FALSE))
        /\ matches(doc, Exists(field, TRUE)) <=> (_get_nested_value(doc, field) # NULL)

-----------------------------------------------------------------------------
(* C14 *)

Refs(colls, c) == IF c \in DOMAIN colls THEN {colls[c][i]["ref"] : i \in 1..Len(colls[c])} ELSE {}

\* the documents of docs that are among refs, in the order of docs
Surviving(docs, refs) == SelectSeq(docs, LAMBDA d : d["ref"] \in refs)

\* C14: after delete_one or delete_many on c, run in any reachable state,
\* find_many(c, {}, o) lists the documents that remain in the order in which it
\* listed them before the deletion.
C14_DeletionKeepsOrder ==
    \A c \in CollNames, q \in SingleQueries, o \in Owners, reader \in Owners :
        LET before == FindMany(collections, indexes, c, <<>>, reader)
            one == DeleteOne(collections, indexes, c, q, o)
            many == DeleteMany(collections, indexes, c, q, o)
        IN /\ FindMany(one.colls, one.idx, c, <<>>, reader) = Surviving(before, Refs(one.colls, c))
           /\ FindMany(many.colls, many.idx, c, <<>>, reader) = Surviving(before, Refs(many.colls, c))

\* of the documents 1, 2, 3 of one owner, 2 is deleted and find_many lists 1, 3
C14_Witness ==
    /\ Len(file.collections["c1"]) >= 3
    /\ \A i \in 1..3 : file.collections["c1"][i]["owner_id"] = 1
    /\ Len(FindMany(collections, indexes, "c1", <<>>, 1)) >= 2
    /\ FindMany(collections, indexes, "c1", <<>>, 1)[1]["_id"] = 1
    /\ FindMany(collections, indexes, "c1", <<>>, 1)[2]["_id"] = 3

-----------------------------------------------------------------------------
(* C15 *)

\* C15: delete_many(c, q, o), run in any reachable state, leaves of c exactly the
\* documents that o does not own or q does not match, in their order, and
\* returns the number of documents that o owns and q matches.
C15_DeleteManyRemovesAllMatches ==
    \A c \in DOMAIN collections, q \in SingleQueries, o \in Owners :
        LET r == DeleteMany(collections, indexes, c, q, o)
        IN /\ r.colls[c] = SelectSeq(collections[c], LAMBDA d : ~Selected(d, q, o))
           /\ r.n = Cardinality(Matching(collections[c], q, o))
           /\ r.n = Len(collections[c]) - Len(r.colls[c])

\* the file held documents 1 and 2 of owner 1 and document 3 of owner 2, all
\* with f = 1; both documents of owner 1 are gone and document 3 is as it was
C15_Witness ==
    /\ Len(file.collections["c1"]) >= 3
    /\ \A i \in 1..3 : file.collections["c1"][i]["f"] = 1
    /\ file.collections["c1"][1]["owner_id"] = 1
    /\ file.collections["c1"][2]["owner_id"] = 1
    /\ file.collections["c1"][3]["owner_id"] = 2
    /\ 1 \notin StoredIds(collections["c1"])
    /\ 2 \notin StoredIds(collections["c1"])
    /\ Len(collections["c1"]) >= 1
    /\ Dump(collections["c1"][1]) = file.collections["c1"][3]

-----------------------------------------------------------------------------
(* C16 *)

\* C16: update_many(c, q, u, o), run in any reachable state, merges u without
\* its _id and owner_id into every document of c that o owns and q matches,
\* leaves every other document as it was, and returns the number of documents
\* it merged u into.
C16_UpdateManyUpdatesAllMatches ==
    \A c \in DOMAIN collections, q \in SingleQueries, u \in UpdatePayloads, o \in Owners :
        LET r == UpdateMany(collections, indexes, c, q, u, o)
        IN /\ Len(r.colls[c]) = Len(collections[c])
           /\ \A i \in 1..Len(collections[c]) :
                  r.colls[c][i] = IF Selected(collections[c][i], q, o)
                                  THEN DictUpdate(collections[c][i], Strip(u))
                                  ELSE collections[c][i]
           /\ r.n = Cardinality(Matching(collections[c], q, o))

\* the file held documents 1 and 3 of owner 1 and document 2 of owner 2, all
\* with f = 1; both documents of owner 1 now hold f = 2 and document 2 is as it was
C16_Witness ==
    /\ Len(file.collections["c1"]) >= 3
    /\ \A i \in 1..3 : file.collections["c1"][i]["f"] = 1
    /\ file.collections["c1"][1]["owner_id"] = 1
    /\ file.collections["c1"][2]["owner_id"] = 2
    /\ file.collections["c1"][3]["owner_id"] = 1
    /\ Len(collections["c1"]) >= 3
    /\ collections["c1"][1]["f"] = 2
    /\ collections["c1"][3]["f"] = 2
    /\ Dump(collections["c1"][2]) = file.collections["c1"][2]

-----------------------------------------------------------------------------
(* C17 *)

\* C17: in every step, every document that stays in its collection keeps its _id
\* and its owner_id.
C17_SystemFieldsNeverChange ==
    [][\A c \in (DOMAIN collections) \cap (DOMAIN collections') :
          \A i \in 1..Len(collections[c]), j \in 1..Len(collections'[c]) :
              collections'[c][j]["ref"] = collections[c][i]["ref"] =>
                  /\ collections'[c][j]["_id"] = collections[c][i]["_id"]
                  /\ collections'[c][j]["owner_id"] = collections[c][i]["owner_id"]]_vars

-----------------------------------------------------------------------------
(* C18 *)

-----------------------------------------------------------------------------
(* C19 *)

Occurrences(s, x) == Cardinality({i \in 1..Len(s) : s[i] = x})

\* C19: in every reachable state, create_index(c, f) called twice in a row leaves
\* the index of (c, f) and the index definitions of c as one call leaves them,
\* with f listed once.
C19_CreateIndexIdempotent ==
    \A c \in CollNames, fld \in UserFields \cup {"a.b"} :
        LET once == CreateIndex(collections, index_definitions, indexes, c, fld)
            twice == CreateIndex(collections, once.defs, once.idx, c, fld)
        IN /\ twice.idx[c][fld] = once.idx[c][fld]
           /\ twice.idx = once.idx
           /\ twice.defs = once.defs
           /\ Occurrences(twice.defs[c], fld) = 1

\* the store loaded no file, create_index(c1, f) has run on a collection that
\* holds documents, and a further call would leave the store as it is
C19_Witness ==
    /\ file.kind = "missing"
    /\ "c1" \in DOMAIN collections
    /\ Len(collections["c1"]) >= 1
    /\ "c1" \in DOMAIN index_definitions
    /\ index_definitions["c1"] = <<"f">>
    /\ "c1" \in DOMAIN indexes
    /\ "f" \in DOMAIN indexes["c1"]
    /\ indexes["c1"]["f"] # EmptyMap
    /\ CreateIndex(collections, index_definitions, indexes, "c1", "f").idx = indexes
    /\ CreateIndex(collections, index_definitions, indexes, "c1", "f").defs = index_definitions

-----------------------------------------------------------------------------
(* C20 *)

\* C20: in every reachable state, load_from_disk on a file that is missing,
\* empty or does not decrypt or decode ends without an exception and leaves
\* empty collections and empty index definitions; after it insert_one stores
\* its document, and find_many, update_one and delete_one reach that document.
C20_LoadNeverFails ==
    \A kind \in FileKinds :
        LET r == LoadFromDisk(indexes, EmptyFile(kind))
        IN /\ ~r.raised
           /\ r.colls = EmptyMap
           /\ r.defs = EmptyMap
           /\ \A c \in CollNames, p \in UserPayloads, o \in Owners :
                  LET s == InsertOne(r.colls, r.idx, uuid_next, c, p, o)
                  IN /\ s.colls[c] = s.out
                     /\ FindMany(s.colls, s.idx, c, <<>>, o) = s.out
                     /\ UpdateOne(s.colls, s.idx, c, <<>>, Payload(1, 2, 2), o).ret # <<>>
                     /\ DeleteOne(s.colls, s.idx, c, <<>>, o).ret = s.out

\* a load has failed on a store that held an index: the collections and the
\* index definitions are empty, and the file is still unreadable
C20_Witness ==
    /\ file.kind \in FileKinds
    /\ collections = EmptyMap
    /\ index_definitions = EmptyMap
    /\ indexes # EmptyMap
    /\ issued["c1"] # {}

-----------------------------------------------------------------------------
(* C21 *)

\* C21: a save_to_disk that fails at one of its steps ends without an exception
\* and leaves collections, index definitions and indexes as they were.
C21_FailedSaveIsCaught ==
    [][\A t \in Threads :
          (InBody(t, "save_to_disk") /\ pc[t].arg[1] \in SaveSteps /\ pc'[t].at = "release") =>
              /\ ~pc'[t].raised
              /\ UNCHANGED <<collections, index_definitions, indexes>>]_vars

\* a thread is at the end of a save whose write failed: the file is no longer
\* readable, the call is about to return, and the store holds its documents
\* and its index
C21_Witness ==
    \E t \in Threads :
        /\ pc[t].at = "release" /\ pc[t].op = "save_to_disk" /\ pc[t].arg = <<"write">>
        /\ ~pc[t].raised
        /\ file.kind \in {"empty", "corrupt"}
        /\ "c1" \in DOMAIN collections /\ Len(collections["c1"]) >= 1
        /\ "c1" \in DOMAIN indexes /\ "f" \in DOMAIN indexes["c1"]

-----------------------------------------------------------------------------
(* C22 *)

\* the threads that are inside a with self._lock block
Inside == {t \in Threads : pc[t].at \in {"body", "release"}}

\* C22: in every reachable state at most one thread is inside a public
\* operation's with block, reads included, and the lock is held exactly while
\* one is.
C22_MutualExclusion ==
    /\ Cardinality(Inside) <= 1
    /\ _lock <=> Inside # {}

\* one thread is reading inside find while the other waits at the lock with an
\* insert_many it has called
C22_Witness ==
    \E t, u \in Threads :
        /\ InBody(t, "find")
        /\ pc[u].at = "acquire" /\ pc[u].op = "insert_many"
        /\ _lock

-----------------------------------------------------------------------------
(* C23 *)

\* C23: while a thread is in insert_many, and when it leaves it, no other thread
\* is inside an operation, and the documents it has inserted so far are the
\* last documents of the collection, next to each other and in input order.
C23_InsertManyAtomic ==
    \A t \in Threads :
        (pc[t].op = "insert_many" /\ pc[t].at \in {"body", "release"} /\ pc[t].out # <<>>) =>
            LET k == Len(pc[t].out)
                n == IF "c1" \in DOMAIN collections THEN Len(collections["c1"]) ELSE 0
            IN /\ Inside = {t}
               /\ n >= k
               /\ SubSeq(collections["c1"], n - k + 1, n) = pc[t].out
               /\ \A i \in 1..k : pc[t].out[i]["f"] = pc[t].arg[i]["f"]

\* a thread has inserted both documents and still holds the lock, while the
\* other thread waits with a load_from_disk that would replace the collection
C23_Witness ==
    \E t, u \in Threads :
        /\ pc[t].op = "insert_many" /\ pc[t].at = "release" /\ Len(pc[t].out) = 2
        /\ pc[u].at = "acquire" /\ pc[u].op \in {"load_from_disk", "delete_many", "insert_one"}
        /\ collections["c1"] = pc[t].out

-----------------------------------------------------------------------------
(* C24 *)

\* a collection name that no call of these specifications inserts into
NeverCreated == "c2"

\* C24: in every reachable state, for every collection name that is not in the
\* store: find, find_many return the empty list, find_one, update_one and
\* delete_one return none, update_many and delete_many return 0, and each of
\* them leaves the collections, without that name, and the indexes as they were.
C24_MissingCollectionIsNoError ==
    \A c \in (CollNames \cup {NeverCreated}) \ DOMAIN collections :
        \A q \in Queries, o \in Owners :
            /\ Find(collections, indexes, c, q, o) = <<>>
            /\ FindMany(collections, indexes, c, q, o) = <<>>
            /\ FindOne(collections, indexes, c, q, o) = <<>>
            /\ DeleteOne(collections, indexes, c, q, o) =
                   [colls |-> collections, idx |-> indexes, ret |-> <<>>]
            /\ DeleteMany(collections, indexes, c, q, o) =
                   [colls |-> collections, idx |-> indexes, n |-> 0]
            /\ \A u \in UpdatePayloads :
                   /\ UpdateOne(collections, indexes, c, q, u, o) =
                          [colls |-> collections, idx |-> indexes, ret |-> <<>>]
                   /\ UpdateMany(collections, indexes, c, q, u, o) =
                          [colls |-> collections, idx |-> indexes, n |-> 0]

\* the store has no collection c1, yet an index of c1 on f that holds an entry
\* which a query on f would hit
C24_Witness ==
    /\ "c1" \notin DOMAIN collections
    /\ "c1" \in DOMAIN indexes
    /\ "f" \in DOMAIN indexes["c1"]
    /\ 1 \in DOMAIN indexes["c1"]["f"]
    /\ Find(collections, indexes, "c1", <<Clause("f", "eq", 1)>>, 1) = <<>>

-----------------------------------------------------------------------------
(* C25 *)

\* matches has been applied: last holds the document, the query and the result
Matched == last.op = "matches" /\ last.ret # <<>>

\* the query without the keys that stand next to "$and", or to "$or" when it
\* has no "$and"
LogicOnly(query) ==
    IF HasKey(query, "$and") THEN SelectSeq(query, LAMBDA cl : cl.k = "$and")
    ELSE SelectSeq(query, LAMBDA cl : cl.k = "$or")

\* C25: the result of matches on a query with "$and" is true exactly when every
\* query in the list of "$and" matches; on a query with "$or" and no "$and" it
\* is true exactly when some query in the list of "$or" matches; in both cases
\* it is the result for the query without its other keys.
C25_AndOrDecideAlone ==
    Matched =>
        LET doc == last.arg[1]
            query == last.arg[2]
            result == last.ret[1]
        IN /\ HasKey(query, "$and") =>
                  result = (\A j \in 1..Len(Value(query, "$and")) :
                                matches(doc, Value(query, "$and")[j]))
           /\ (~HasKey(query, "$and") /\ HasKey(query, "$or")) =>
                  result = (\E j \in 1..Len(Value(query, "$or")) :
                                matches(doc, Value(query, "$or")[j]))
           /\ (HasKey(query, "$and") \/ HasKey(query, "$or")) =>
                  result = matches(doc, LogicOnly(query))

\* a query with "$and" over a query that has an "$or" inside matched a document
\* that fails the key next to "$and"
C25_Witness ==
    /\ Matched
    /\ last.ret = <<TRUE>>
    /\ \E x, y, z \in SubQueries :
           /\ last.arg[2] \in {<<And(<<x>>), Sibling>>, <<And(<<x, <<Or(<<y, z>>)>>>>)>>}
           /\ x # <<>>
    /\ \E l \in SubLists : l # <<>> /\ matches(last.arg[1], <<And(l), Sibling>>)
                                       /\ ~matches(last.arg[1], <<Sibling>>)

-----------------------------------------------------------------------------
(* C26 *)

\* the key path leads to a value in the document, or is a key of it
Resolves(doc, k) == _get_nested_value(doc, k) # NULL \/ Has(doc, k)

-----------------------------------------------------------------------------
(* C27 *)

\* C27: in every reachable state, every entry of every index of c, under key v
\* of field f, is a document that is in c now and holds v in f now; and every
\* document find returns for c is in c.
C27_IndexesConsistent ==
    /\ \A c \in DOMAIN indexes :
           \A fld \in DOMAIN indexes[c] :
               \A v \in DOMAIN indexes[c][fld] :
                   /\ c \in DOMAIN collections
                   /\ indexes[c][fld][v] \in Elems(collections[c])
                   /\ Has(indexes[c][fld][v], fld)
                   /\ indexes[c][fld][v][fld] = v
    /\ \A c \in DOMAIN collections, q \in SingleQueries, o \in Owners :
           Elems(Find(collections, indexes, c, q, o)) \subseteq Elems(collections[c])

-----------------------------------------------------------------------------
(* C28 *)

\* the index idx has, for c and fld, an entry under the value doc holds in fld,
\* and the entry is doc
Indexed(idx, c, fld, doc) ==
    /\ c \in DOMAIN idx
    /\ fld \in DOMAIN idx[c]
    /\ doc[fld] \in DOMAIN idx[c][fld]
    /\ idx[c][fld][doc[fld]] = doc

\* the fields listed in the index definitions of c
Defined(defs, c) == IF c \in DOMAIN defs THEN Elems(defs[c]) ELSE {}

\* C28: in every reachable state, after insert_one, or insert_many, has added a
\* document to c, the index of every field that the index definitions of c list
\* and the document (for insert_many: the last document) contains maps the
\* document's value to that document.
C28_InsertIsIndexed ==
    \A c \in CollNames, o \in Owners :
        /\ \A p \in UserPayloads :
               LET r == InsertOne(collections, indexes, uuid_next, c, p, o)
               IN \A fld \in Defined(index_definitions, c) :
                      Has(r.out[1], fld) => Indexed(r.idx, c, fld, r.out[1])
        /\ \A ps \in InsertManyPayloads :
               LET r == InsertMany(collections, indexes, uuid_next, c, ps, o)
               IN \A fld \in Defined(index_definitions, c) :
                      Has(r.out[Len(ps)], fld) => Indexed(r.idx, c, fld, r.out[Len(ps)])

-----------------------------------------------------------------------------
(* C29 *)

\* C29: in every reachable state, after a save_to_disk that succeeds and a
\* load_from_disk of the file it wrote, every index that the index definitions
\* listed before the save exists, and for every document of the loaded
\* collection that holds a value in the indexed field, the index maps that
\* value to a document of the collection that holds it.
C29_ReloadRebuildsIndexes ==
    \A f \in SaveToDisk(file, collections, index_definitions, "none") :
        LET r == LoadFromDisk(indexes, f)
        IN \A c \in DOMAIN index_definitions :
               \A fld \in Elems(index_definitions[c]) :
                   /\ c \in DOMAIN r.idx
                   /\ fld \in DOMAIN r.idx[c]
                   /\ \A doc \in (IF c \in DOMAIN r.colls THEN Elems(r.colls[c]) ELSE {}) :
                          Has(doc, fld) =>
                              /\ doc[fld] \in DOMAIN r.idx[c][fld]
                              /\ r.idx[c][fld][doc[fld]] \in Elems(r.colls[c])
                              /\ r.idx[c][fld][doc[fld]][fld] = doc[fld]

-----------------------------------------------------------------------------
(* C30 *)

\* the update payloads of C30: f := 1, f := 2 with system fields, f := None
IndexedUpdates == UpdatePayloads \cup {Payload(ABSENT, ABSENT, 1)}

\* C30: in every reachable state, for every document of an indexed collection:
\* deleting it removes no index entry but one under the document's own value
\* that points at the document, and leaves every entry that points at another
\* document as it is; updating it keeps every entry that points at another
\* document, unchanged unless its key is the document's new value, and adds an
\* entry only under the new value, for the updated document, and never under None.
C30_IndexEntriesOfOthersStay ==
    \A c \in (DOMAIN collections) \cap (DOMAIN indexes) :
        \A i \in 1..Len(collections[c]) :
            LET target == collections[c][i]
                del == DeleteAt(collections, indexes, c, i)
            IN \A fld \in DOMAIN indexes[c] :
                   /\ \A v \in DOMAIN indexes[c][fld] :
                          /\ v \notin DOMAIN del.idx[c][fld] =>
                                 /\ indexes[c][fld][v]["_id"] = target["_id"]
                                 /\ Has(target, fld) /\ target[fld] = v
                          /\ indexes[c][fld][v]["ref"] # target["ref"] =>
                                 /\ v \in DOMAIN del.idx[c][fld]
                                 /\ del.idx[c][fld][v] = indexes[c][fld][v]
                   /\ \A u \in IndexedUpdates :
                          LET upd == UpdateAt(collections, indexes, c, i, u)
                          IN /\ \A v \in DOMAIN indexes[c][fld] :
                                    indexes[c][fld][v]["ref"] # target["ref"] =>
                                        /\ v \in DOMAIN upd.idx[c][fld]
                                        /\ v # Get(upd.doc, fld) =>
                                               upd.idx[c][fld][v] = indexes[c][fld][v]
                             /\ \A v \in (DOMAIN upd.idx[c][fld]) \ (DOMAIN indexes[c][fld]) :
                                    /\ v # NULL
                                    /\ v = Get(upd.doc, fld)
                                    /\ upd.idx[c][fld][v] = upd.doc

\* documents 1 and 2 of the file held f = 1; document 1 is gone, and the entry
\* of the index on f under 1 is still there, pointing at document 2
C30_Witness ==
    /\ file.collections["c1"][1]["f"] = 1
    /\ file.collections["c1"][2]["f"] = 1
    /\ 1 \notin StoredIds(collections["c1"])
    /\ 2 \in StoredIds(collections["c1"])
    /\ "f" \in DOMAIN indexes["c1"]
    /\ 1 \in DOMAIN indexes["c1"]["f"]
    /\ indexes["c1"]["f"][1]["_id"] = 2

-----------------------------------------------------------------------------
(* C31 *)

\* the query has a bare value for a field that has an index in c
HasIndexedEquality(idx, c, query) ==
    \E i \in 1..Len(query) :
        /\ ~IsOperatorObject(query[i])
        /\ c \in DOMAIN idx
        /\ query[i].k \in DOMAIN idx[c]

\* C31: in every reachable state, for every query that has no bare value for a
\* field with an index, whatever operator objects it has for such fields,
\* find(c, q, o) returns the documents of c that o owns and q matches, all of
\* them and no other, in the order of the collection.
C31_ScanWithoutIndexedEquality ==
    \A c \in DOMAIN collections, q \in Queries, o \in Owners :
        ~HasIndexedEquality(indexes, c, q) =>
            Find(collections, indexes, c, q, o) =
                SelectSeq(collections[c],
                          LAMBDA doc : Get(doc, "owner_id") = o /\ matches(doc, q))

\* f is indexed and holds an entry, both owners have a document with f = 2,
\* and find with {"f": {"$gt": 1}} returns to owner 1 its document alone
C31_Witness ==
    /\ "c1" \in DOMAIN collections
    /\ "c1" \in DOMAIN indexes
    /\ "f" \in DOMAIN indexes["c1"]
    /\ 2 \in DOMAIN indexes["c1"]["f"]
    /\ \E i, j \in 1..Len(collections["c1"]) :
           /\ collections["c1"][i]["owner_id"] = 1 /\ collections["c1"][i]["f"] = 2
           /\ collections["c1"][j]["owner_id"] = 2 /\ collections["c1"][j]["f"] = 2
    /\ Len(Find(collections, indexes, "c1", <<Clause("f", "$gt", 1)>>, 1)) = 1

-----------------------------------------------------------------------------
(* C32 *)

\* C32: a step that changes the file is a step of save_to_disk, or a step of
\* the outside that removes or replaces the file: no step of insert_one,
\* insert_many, update_one, update_many, delete_one, delete_many, create_index,
\* find, find_many or find_one changes it.
C32_OnlySaveWritesFile ==
    [][file' # file =>
          \/ \E failing \in {"none"} \cup SaveSteps : save_to_disk(failing)
          \/ \E kind \in FileKinds : external_overwrite(kind)]_vars

\* the file holds what a save wrote, and the store has since been given a
\* document and an index that the file does not have
C32_Witness ==
    /\ file.kind = "ok"
    /\ file # SeedFile
    /\ "c1" \in DOMAIN collections
    /\ "c1" \in DOMAIN file.collections
    /\ Len(collections["c1"]) > Len(file.collections["c1"])
    /\ file.index_definitions # index_definitions
    /\ last.op = "insert_one"

-----------------------------------------------------------------------------
(* C38 *)

\* a payload whose value for f is a list
ListPayloads == {Payload(ABSENT, ABSENT, LIST)}

\* C38: in every reachable state, an insert_one that ends in an exception
\* leaves the collections and the indexes as they were before the call.
C38_FailedInsertChangesNothing ==
    \A c \in CollNames, p \in ListPayloads, o \in Owners :
        LET r == InsertOne(collections, indexes, uuid_next, c, p, o)
        IN r.raised => (r.colls = collections /\ r.idx = indexes)

-----------------------------------------------------------------------------
(* C33 *)

-----------------------------------------------------------------------------
(* C34 *)

\* C34: in every reachable state, for every registered user whose failure
\* record counts fewer than MAX_LOGIN_ATTEMPTS failures, authenticate_user
\* with the user's password succeeds and leaves no failure record of the user.
C34_LockoutOnlyAfterMaxAttempts ==
    \A u \in DOMAIN _users_db, pw \in Passwords :
        (/\ verify_password(pw, _users_db[u])
         /\ (u \in DOMAIN _failed_login_attempts =>
                 _failed_login_attempts[u].count < MAX_LOGIN_ATTEMPTS)) =>
            LET r == AuthenticateUser(_users_db, _failed_login_attempts, now, u, pw)
            IN r.ret = <<u>> /\ u \notin DOMAIN r.failed

-----------------------------------------------------------------------------
(* C35 *)

\* the request carries a token that the server signed and that has not expired
Decodes(data) ==
    /\ data.token # <<>>
    /\ data.token[1].key = SECRET_KEY
    /\ data.token[1].exp > now

\* the documents the request asks to insert: data.get("document") of an
\* INSERT_ONE, data.get("documents") of an INSERT_MANY
Sent(data) ==
    IF data.command = "INSERT_ONE"
    THEN {data.documents[i] : i \in 1..(IF data.documents = <<>> THEN 0 ELSE 1)}
    ELSE {data.documents[i] : i \in 1..Len(data.documents)}

\* the documents of colls that the store did not hold before the request
AddedBy(colls, c) ==
    IF c \in DOMAIN colls
    THEN {colls[c][i] : i \in {j \in 1..Len(colls[c]) : colls[c][j]["ref"] >= uuid_next}}
    ELSE {}

\* C35: in every reachable state and for every request with a command other
\* than REGISTER and LOGIN: every call handle_command makes to the store is
\* made for a token that decodes, with the subject of the token as owner_id,
\* and every document it adds is owned by that subject; a request without a
\* token, with a token that does not decode, or an INSERT_ONE or INSERT_MANY
\* with a document that names another owner is answered with an error and
\* leaves collections, index definitions and indexes as they were.
C35_TokenGuardsTheStore ==
    \A data \in Requests :
        LET r == HandleCommand(collections, index_definitions, indexes, uuid_next, now, data)
            untouched == /\ r.calls = <<>>
                         /\ r.colls = collections
                         /\ r.defs = index_definitions
                         /\ r.idx = indexes
            foreign == /\ data.command \in {"INSERT_ONE", "INSERT_MANY"}
                       /\ Decodes(data)
                       /\ \E doc \in Sent(data) : NamesOtherOwner(doc, data.token[1].sub)
        IN /\ \A i \in 1..Len(r.calls) :
                  Decodes(data) /\ r.calls[i].owner_id = data.token[1].sub
           /\ \A doc \in AddedBy(r.colls, data.collection) :
                  Decodes(data) /\ doc["owner_id"] = data.token[1].sub
           /\ (~Decodes(data) \/ foreign) => (r.status = "error" /\ untouched)

\* the store holds documents of both owners, and the last request, an
\* INSERT_ONE with the token of owner 1 and a document that names owner 2, was
\* answered with an error
C35_Witness ==
    /\ last.op = "INSERT_ONE"
    /\ last.arg[1] = TokenOf(1)
    /\ NamesOtherOwner(last.arg[2][1], 1)
    /\ last.ret = <<"error">>
    /\ "c1" \in DOMAIN collections
    /\ \A o \in Owners : \E i \in 1..Len(collections["c1"]) : collections["c1"][i]["owner_id"] = o

-----------------------------------------------------------------------------
(* C37 *)

\* C37: in every reachable state, for every collection c and every field f
\* that has an index in c, the index kept for (c, f) through the inserts,
\* updates and deletes is the index create_index(c, f) builds from the
\* documents c holds now, and find returns the same before and after that
\* rebuild.
C37_IncrementalIndexIsRebuild ==
    \A c \in DOMAIN indexes :
        \A f \in DOMAIN indexes[c] :
            LET r == CreateIndex(collections, index_definitions, indexes, c, f)
            IN /\ r.idx[c][f] = indexes[c][f]
               /\ \A q \in Queries, o \in Owners :
                      c \in DOMAIN collections =>
                          Find(collections, r.idx, c, q, o) = Find(collections, indexes, c, q, o)

-----------------------------------------------------------------------------
(* C36 *)

\* C36: in every reachable state, for owners o and o2 with o # o2, every
\* collection c and every query q, find(c, q, o) returns what it returns on
\* the store that the same calls leave when the inserts, updates and deletes
\* of o2 are not made, whatever indexes were created.
C36_TenantNonInterference ==
    \A o \in Owners :
        \A o2 \in Owners \ {o} :
            LET alone == Replay(Without(log, o2))
            IN \A c \in CollNames, q \in Queries :
                   Find(collections, indexes, c, q, o) = Find(alone.colls, alone.idx, c, q, o)

-----------------------------------------------------------------------------
(* C39 *)

\* C39: no call of matches(document, query) ends with an exception, and each
\* call that has ended returned a boolean; this for documents whose field is a
\* list of numbers, a list of mappings, a number, None or missing, and queries
\* with "$elemMatch".
C39_MatchesNeverRaises ==
    /\ last.op # "TypeError"
    /\ last.op = "returned" => last.ret \in {<<TRUE>>, <<FALSE>>}

-----------------------------------------------------------------------------
(* C40 *)

\* C40: when the load_from_disk of a restore_database has been made and the
\* call is about to return with success, the store holds the collections and
\* the index definitions of the backup, whatever saves other threads made.
C40_RestoreLoadsTheBackup ==
    \A t \in Threads :
        (/\ pc[t].op = "load_from_disk"
         /\ pc[t].arg = <<"restore_database">>
         /\ pc[t].at = "release") =>
            /\ collections = LoadCollections(BackupFile.collections)
            /\ index_definitions = BackupFile.index_definitions

====
